---- MODULE Spec2Model ----
(***************************************************************************)
(* Grid trading engine of InvestorStack-BOT-UI: the GridEngine             *)
(* (backend/engine/grid_engine.py), the BotService life-cycle calls        *)
(* (backend/engine/services.py), the manual-sync and order routes          *)
(* (backend/api/routes_sync.py, routes_orders.py) and the venue they talk  *)
(* to.                                                                     *)
(*                                                                         *)
(* The engine is asyncio code: a task runs until it awaits an adapter call *)
(* and another task may run while the call is pending.  A step of the      *)
(* monitor task and of start/stop/reset is "the pending adapter call       *)
(* answers and the task runs up to its next adapter call".  The operator   *)
(* commands (toggle_zone, cancel_order_at_level, enable_order_at_level,    *)
(* manual sync, order cancel, update_config, a life-cycle command without  *)
(* confirmation) are one step each.  The cancel calls of one               *)
(* _cancel_all_orders sweep are one step.  What a BotService call returns  *)
(* is visible in `response` in the state after the step in which it        *)
(* returns.                                                                *)
(*                                                                         *)
(* Prices are integers in units of the polarity tolerance (1e-5).          *)
(***************************************************************************)
EXTENDS Integers, FiniteSets, Sequences, TLC

\* ------------------------------------------------------------------ bounds
\* Largest order id the venue hands out (ids 1 and 2 are the orders that
\* may rest on the venue before the engine starts).
MaxOrderId == 5
\* Commands the operator issues (start, stop, reset, zone toggles, level and
\* order commands, manual syncs).
MaxOps == 2
\* Adapter calls that fail (raise, or list no order although some are open).
MaxFaults == 2
\* Venue events: fills and moves of the last-trade price.
MaxEvents == 1
\* The functions applied on their own: prices up to MaxDelta units either
\* side of the mid price, grids with bounds up to MaxLower and MaxUpper and
\* up to MaxLevels levels.
MaxDelta == 30
MaxLower == 3
MaxUpper == 8
MaxLevels == 5
\* Prices of the orders adopted on their own: 0..MaxAdoptPrice, from below
\* the lowest level to above the highest.
MaxAdoptPrice == 35

\* ------------------------------------------------------- configuration
\* GridCalculator.determine_side: tolerance = 0.00001, one price unit here.
Tolerance == 1

\* GridConfig.zones: zone 1 covers levels 0..1, zone 2 covers level 2.
Zones == { [id |-> 1, level_start |-> 0, level_end |-> 1, enabled |-> TRUE],
           [id |-> 2, level_start |-> 2, level_end |-> 2, enabled |-> TRUE] }
ZoneIds == {z.id : z \in Zones}
\* The same zones with zone 1 switched off.
ZonesOff == { [id |-> 1, level_start |-> 0, level_end |-> 1, enabled |-> FALSE],
              [id |-> 2, level_start |-> 2, level_end |-> 2, enabled |-> TRUE] }

\* Last-trade prices the venue ticker may report: 15 lies between levels 0
\* and 1, 21 lies within the tolerance of level 1.
MidPrices == {15, 21}

\* Orders that may already rest on the venue when the service is
\* initialized; both are nearest to level 0.
ExternalOrders == { [id |-> 1, side |-> "buy", price |-> 10, size |-> 1],
                    [id |-> 2, side |-> "buy", price |-> 12, size |-> 1] }

Modes == {"real", "sim"}

\* The GridConfig BotService.initialize is given: a three-level arithmetic
\* grid 10, 20, 30 on the market "THB_BTC" of the venue "bitkub",
\* enabled = False (the default).
BaseConfig(m) ==
    [lower_bound |-> 10, upper_bound |-> 30, total_levels |-> 3, mode |-> m,
     exchange |-> "bitkub", symbol |-> "THB_BTC", zones |-> Zones,
     position_size |-> 1, enabled |-> FALSE]

\* The configurations the operator may submit to update_config: the initial
\* one and one variant per field.
ConfigChoices(m) ==
    { BaseConfig(m),
      [BaseConfig(m) EXCEPT !.lower_bound = 20],
      [BaseConfig(m) EXCEPT !.upper_bound = 50],
      [BaseConfig(m) EXCEPT !.total_levels = 2],
      [BaseConfig(m) EXCEPT !.mode = IF m = "sim" THEN "real" ELSE "sim"],
      [BaseConfig(m) EXCEPT !.exchange = "okx"],
      [BaseConfig(m) EXCEPT !.zones = ZonesOff],
      [BaseConfig(m) EXCEPT !.position_size = 2],
      [BaseConfig(m) EXCEPT !.enabled = TRUE] }

\* The level indices of the grid of the initial configuration.
InitialLevelIdx == 0..(BaseConfig("real").total_levels - 1)

\* The fields of the configuration the engine works with.
EngineFields == {"lower_bound", "upper_bound", "total_levels", "exchange",
                 "symbol", "zones", "position_size"}
EngineView(c) == [f \in EngineFields |-> c[f]]

\* The life-cycle calls of BotService that take a confirm flag.
Commands == {"start", "stop", "reset"}

\* The two callers of _cancel_all_orders: stop() and reset().
Callers == {"stop", "reset"}

VARIABLES
    \* the venue
    venue_orders,    \* open orders on the venue: set of [id, side, price]
    next_id,         \* next order id the venue hands out
    mid,             \* ticker['last']
    \* GridEngine / StateManager
    mode,            \* GridEngine.config.mode
    engine_config,   \* GridEngine.config, the other fields the engine reads
    config,          \* BotService.config
    last_error,      \* RuntimeState.last_error: "none" | "set"
    active_orders,   \* GridEngine.active_orders: order id -> order info
    zone_map,        \* GridEngine.zone_map: level -> [zone_id, enabled]
    running,         \* GridEngine.running
    bot_state,       \* RuntimeState.state
    active_levels,   \* RuntimeState.active_levels
    \* the monitor task (_monitor_orders)
    pc_mon,          \* "none" | "fetch" | "ticker" | "place" | "pnl"
    open_order_ids,  \* ids of the listing the current tick works on
    todo,            \* ids of list(active_orders.items()) not yet visited
    cur,             \* [level, side] of the replacement in flight
    \* life-cycle calls in flight
    pc_start,        \* "idle" | "sync" | "ticker" | "place"
    start_level,     \* level whose place_limit_order is pending
    start_mid,       \* mid_price read by _place_grid_orders
    start_levels,    \* the list the loop of _place_grid_orders enumerates
    start_caller,    \* "api" | "reset": who awaits start()
    pc_stop,         \* "idle" | "fetch" | "cancel"
    stop_caller,     \* "api" | "reset": who awaits stop()
    pc_reset,        \* "idle" | "stop" | "fetch" | "cancel"
    cancel_only,     \* reset(cancel_only=...)
    ca_open,         \* open_orders of the _cancel_all_orders call, per caller
    \* what the BotService call that returned in the last step returned
    response,        \* [call, success, message, restart_required]
    \* observation of the run (history)
    tick_result,     \* "outage" | "listed" if the last step was the monitor's
                     \* fetch_open_orders answering, "raised" if it was that
                     \* call raising, "none" otherwise
    tick_clean,      \* no external event since the current tick began
    quiet,           \* ticks completed since the last external event (<= 2)
    last_toggle_off, \* zone of the last operator command if it disabled one
    last_adopt,      \* the last adoption: its input, result, repeated or not
    ca_streak,       \* _cancel_all_orders calls completed in a row (<= 2)
    ca_clean,        \* one call of the streak listed and cancelled everything
    ca_ok,           \* per caller: the call in flight listed the venue's
                     \* orders and nothing else has touched them since
    \* what the environment has done so far
    ops, faults, events,
    \* a function of the program applied on its own
    fn_call,         \* the function and its arguments, [fn |-> "none"] if none
    fn_result,       \* what it returned or raised, once it has been applied
    \* SimulatedExchange constructed on its own, in two separate runs
    sim              \* run -> the simulator's fields and the random module's state

venue_vars   == <<venue_orders, next_id, mid>>
engine_vars  == <<mode, active_orders, zone_map, running, bot_state, active_levels>>
monitor_vars == <<pc_mon, open_order_ids, todo, cur>>
start_vars   == <<pc_start, start_level, start_mid, start_levels, start_caller>>
svc_vars     == <<engine_config, config, last_error>>
stop_vars    == <<pc_stop, stop_caller, pc_reset, cancel_only, ca_open>>
hist_vars    == <<tick_result, tick_clean, quiet, last_toggle_off, last_adopt,
                  ca_streak, ca_clean, ca_ok>>
env_vars     == <<ops, faults, events>>
fn_vars      == <<fn_call, fn_result, sim>>
prog_vars == <<venue_vars, engine_vars, svc_vars, monitor_vars, start_vars, stop_vars,
               response, hist_vars, env_vars>>
vars == <<prog_vars, fn_vars>>

\* Python's round(n / d) for whole n >= 0 and d > 0: to the nearest whole
\* number, a tie going to the even one.
Round(n, d) ==
    LET q == n \div d
        r == n % d IN
    IF 2 * r < d THEN q
    ELSE IF 2 * r > d THEN q + 1
    ELSE IF q % 2 = 0 THEN q ELSE q + 1

\* A level list whose steps are cut off instead of rounded.
calculate_fixed_grid_floor(lower_bound, upper_bound, total_levels) ==
    [i \in 0..(total_levels - 1) |->
        (lower_bound * (total_levels - 1) + i * (upper_bound - lower_bound))
            \div (total_levels - 1)]

\* GridCalculator.calculate_fixed_grid, lines 17-22: the list of level
\* prices, indexed from 0.  Each level lower + i * step is rounded to the
\* eighth decimal; a price is a whole number of units here, so one unit
\* stands for the rounding quantum where the step is not whole (the grids
\* of the engine's configurations have whole steps).  The arithmetic is
\* exact, the error of the binary floating point is left out.
calculate_fixed_grid(lower_bound, upper_bound, total_levels) ==
    [i \in 0..(total_levels - 1) |->
        Round(lower_bound * (total_levels - 1) + i * (upper_bound - lower_bound),
              total_levels - 1)]

\* GridEngine.levels, as GridEngine.initialize computes it.
levels ==
    calculate_fixed_grid(engine_config.lower_bound, engine_config.upper_bound,
                         engine_config.total_levels)
LevelIdx == DOMAIN levels

\* ------------------------------------------------------------- helpers
Abs(x) == IF x < 0 THEN -x ELSE x
Min(a, b) == IF a < b THEN a ELSE b

NoOrders == [id \in {} |-> 0]
NoCur == [level |-> -1, side |-> "skip"]
NoAdopt == [path |-> "none", input |-> {}, result |-> NoOrders, twice |-> FALSE]
NoResponse == [call |-> "none", success |-> FALSE, message |-> "",
               restart_required |-> FALSE]

\* dict assignment active_orders[k] = v
Put(a, k, v) == [x \in DOMAIN a \cup {k} |-> IF x = k THEN v ELSE a[x]]
\* del active_orders[k]
Del(a, k) == [x \in DOMAIN a \ {k} |-> a[x]]
\* active_orders[k]['status'] = s
SetStatus(a, ids, s) == [x \in DOMAIN a |-> IF x \in ids THEN [a[x] EXCEPT !.status = s] ELSE a[x]]

OpenIds(a) == {k \in DOMAIN a : a[k].status = "open"}
OpenAt(a, i) == {k \in OpenIds(a) : a[k].level_index = i}
VenueIds == {o.id : o \in venue_orders}

\* ExchangeValidator.REQUIREMENTS in the units of the model: prices and
\* order values in price units, sizes in size units.  One market per venue
\* is kept; "THB_BTC" is not a market of "okx".
REQUIREMENTS ==
    [ okx    |-> ("BTC/USDT" :> [min_size |-> 1, min_value |-> 5,
                                 size_step |-> 1, price_tick |-> 5]),
      bitkub |-> ("THB_BTC"  :> [min_size |-> 1, min_value |-> 10,
                                 size_step |-> 1, price_tick |-> 10]) ]

\* ExchangeValidator.validate_order: TRUE when the order is accepted.  An
\* unknown venue or market is not validated; the step and tick tests allow
\* a deviation of a thousandth of the step or tick.
validate_order(exchange, symbol, size, price) ==
    IF exchange \notin DOMAIN REQUIREMENTS THEN TRUE
    ELSE IF symbol \notin DOMAIN REQUIREMENTS[exchange] THEN TRUE
    ELSE LET reqs == REQUIREMENTS[exchange][symbol] IN
         /\ ~(size < reqs.min_size)
         /\ ~(size * price < reqs.min_value)
         /\ reqs.size_step > 0 =>
                ~(1000 * Abs(size - Round(size, reqs.size_step) * reqs.size_step)
                    > reqs.size_step)
         /\ reqs.price_tick > 0 =>
                ~(1000 * Abs(price - Round(price, reqs.price_tick) * reqs.price_tick)
                    > reqs.price_tick)

\* ExchangeValidator.round_size
round_size(exchange, symbol, size) ==
    IF exchange \notin DOMAIN REQUIREMENTS THEN size
    ELSE IF symbol \notin DOMAIN REQUIREMENTS[exchange] THEN size
    ELSE LET step == REQUIREMENTS[exchange][symbol].size_step IN
         IF step > 0 THEN Round(size, step) * step ELSE size

\* ExchangeValidator.round_price
round_price(exchange, symbol, price) ==
    IF exchange \notin DOMAIN REQUIREMENTS THEN price
    ELSE IF symbol \notin DOMAIN REQUIREMENTS[exchange] THEN price
    ELSE LET tick == REQUIREMENTS[exchange][symbol].price_tick IN
         IF tick > 0 THEN Round(price, tick) * tick ELSE price

\* A side test whose comparisons include the tolerance itself.
determine_side_inclusive(price, mid_price) ==
    IF price <= mid_price - Tolerance THEN "buy"
    ELSE IF price >= mid_price + Tolerance THEN "sell"
    ELSE "skip"

\* GridCalculator.determine_side
determine_side(price, mid_price) ==
    IF price < mid_price - Tolerance THEN "buy"
    ELSE IF price > mid_price + Tolerance THEN "sell"
    ELSE "skip"

\* GridCalculator.get_zone_levels for a grid of n levels: a level that no
\* zone covers has no entry.
get_zone_levels(n, zones) ==
    [i \in {j \in 0..(n - 1) : \E z \in zones : z.level_start <= j /\ j <= z.level_end} |->
        LET z == CHOOSE z \in zones : z.level_start <= i /\ i <= z.level_end
        IN [zone_id |-> z.id, enabled |-> z.enabled]]

\* The zone map GridEngine.initialize stores for the engine's configuration.
InitialZoneMap == get_zone_levels(engine_config.total_levels, engine_config.zones)

\* `i in self.zone_map and not self.zone_map[i]['enabled']` is the test for
\* a disabled level: a level without an entry counts as enabled.
ZoneEnabled(i) == i \notin DOMAIN zone_map \/ zone_map[i].enabled
\* self.zone_map.get(i, {}).get('zone_id', 0)
ZoneIdOf(i) == IF i \in DOMAIN zone_map THEN zone_map[i].zone_id ELSE 0
\* The levels set_active_levels is given at lines 288 and 473.
EnabledLevels == {i \in LevelIdx : i \in DOMAIN zone_map /\ zone_map[i].enabled}

\* A closest-level loop that keeps the last of equally distant levels.
ClosestLevelLast(price) ==
    CHOOSE i \in LevelIdx :
        /\ \A j \in LevelIdx : Abs(price - levels[i]) <= Abs(price - levels[j])
        /\ \A j \in LevelIdx : j > i => Abs(price - levels[j]) > Abs(price - levels[i])

\* The closest-level loop of _sync_with_exchange_orders and of
\* manual_sync_orders: strict "<" keeps the first (lowest) of equal levels.
ClosestLevel(price) ==
    CHOOSE i \in LevelIdx :
        /\ \A j \in LevelIdx : Abs(price - levels[i]) <= Abs(price - levels[j])
        /\ \A j \in LevelIdx : j < i => Abs(price - levels[j]) > Abs(price - levels[i])

\* The order info _sync_with_exchange_orders stores for a venue order.
AdoptedInfo(o) ==
    [level_index |-> ClosestLevel(o.price),
     zone_id |-> ZoneIdOf(ClosestLevel(o.price)),
     side |-> o.side, price |-> o.price, size |-> o.size, status |-> "open"]

\* The order info stored after a successful place_limit_order at level i.
PlacedInfo(i, side, price) ==
    [level_index |-> i, zone_id |-> ZoneIdOf(i),
     side |-> side, price |-> price, size |-> engine_config.position_size,
     status |-> "open"]

\* active_orders.clear() followed by one insert per listed order
AdoptAll(orders) ==
    [k \in {o.id : o \in orders} |->
        AdoptedInfo(CHOOSE o \in orders : o.id = k)]

\* Variant without active_orders.clear(): what was tracked before stays.
SyncWithExchangeMerge(a, orders) ==
    [k \in DOMAIN a \cup {o.id : o \in orders} |->
        IF k \in {o.id : o \in orders} THEN AdoptAll(orders)[k] ELSE a[k]]

\* _sync_with_exchange_orders once the listing is in: an empty listing keeps
\* what is tracked, any other listing replaces it.
SyncWithExchange(a, orders) ==
    IF orders = {} /\ DOMAIN a # {} THEN a ELSE AdoptAll(orders)

\* The order info manual_sync_orders stores: it also carries the id.
ManualInfo(o) ==
    [id |-> o.id, level_index |-> ClosestLevel(o.price),
     zone_id |-> ZoneIdOf(ClosestLevel(o.price)),
     side |-> o.side, price |-> o.price, size |-> o.size, status |-> "open"]

\* manual_sync_orders: clear, then one insert per order of the request.
ManualSync(a, orders) ==
    [k \in {o.id : o \in orders} |->
        ManualInfo(CHOOSE o \in orders : o.id = k)]

\* Variant that cancels only what is tracked.
CancelTargetsTracked(listed, a) == OpenIds(a)

\* _cancel_all_orders, lines 385-411: the orders it sends a cancel for are
\* the listed ones, then the tracked open ones that were not listed.
CancelTargets(listed, a) == listed \cup OpenIds(a)

\* set of level indices of the tracked orders (both adoption paths)
LevelsOf(a) == {a[k].level_index : k \in DOMAIN a}

\* Variant without the empty-listing guard.
FilledIdsUnguarded(a, ids, listing) ==
    {k \in ids : k \notin listing /\ (k \in DOMAIN a => a[k].status = "open")}

\* _monitor_orders, lines 301-314: the ids the tick treats as filled.  An
\* empty listing is taken for an API problem and processes nothing.  An
\* entry removed since the snapshot is still visited (the loop runs over a
\* copy) and is taken to have been open.
FilledIds(a, ids, listing) ==
    IF listing = {} THEN {}
    ELSE {k \in ids : k \notin listing /\ (k \in DOMAIN a => a[k].status = "open")}

\* -------------------------------------------------------- environment
\* A step that issues o commands, meets f adapter failures and e venue
\* events.
Env(o, f, e) ==
    /\ ops + o <= MaxOps /\ faults + f <= MaxFaults /\ events + e <= MaxEvents
    /\ ops' = ops + o /\ faults' = faults + f /\ events' = events + e

\* ----------------------------------------------------------- responses
\* The dict a BotService call returns: success with its message, or the
\* failure message of the exception it caught.
Reply(call, ok) ==
    [call |-> call, success |-> ok, message |-> IF ok THEN "done" ELSE "error",
     restart_required |-> FALSE]

\* `if not confirm: return {"success": False, "message": "Confirmation required"}`
ConfirmationRequired(call) ==
    [call |-> call, success |-> FALSE, message |-> "Confirmation required",
     restart_required |-> FALSE]

\* No BotService call returns in this step.
Silent == response' = NoResponse

\* The BotService call that awaits start(): start_bot, or reset_bot.
CallOf(caller) == IF caller = "reset" THEN "reset" ELSE "start"

\* ------------------------------------------------------------ history
\* Every step that is not a step of the monitor task is an external event
\* for the tick count; toggle is the zone the step disabled, 0 otherwise.
External(toggle) ==
    /\ tick_clean' = FALSE
    /\ quiet' = 0
    /\ last_toggle_off' = toggle
    /\ tick_result' = "none"

\* For the steps that are not an adoption.
NotAdoption ==
    last_adopt' = IF active_orders' = active_orders THEN last_adopt ELSE NoAdopt

\* For the steps that do not complete a _cancel_all_orders call.
NotCancelAll ==
    /\ ca_streak' = IF venue_orders' = venue_orders /\ active_orders' = active_orders
                    THEN ca_streak ELSE 0
    /\ ca_clean' = IF venue_orders' = venue_orders /\ active_orders' = active_orders
                   THEN ca_clean ELSE FALSE
    /\ ca_ok' = IF venue_orders' = venue_orders /\ active_orders' = active_orders
                THEN ca_ok ELSE [p \in Callers |-> FALSE]

\* An adoption of orders by the manual sync or by the startup sync: a
\* repetition when the previous adoption went the same path with the same
\* input and nothing else touched active_orders in between.
Adoption(path, orders) ==
    last_adopt' = IF last_adopt.path = path /\ last_adopt.input = orders
                  THEN [last_adopt EXCEPT !.twice = TRUE]
                  ELSE [path |-> path, input |-> orders, result |-> active_orders',
                        twice |-> FALSE]

\* ---------------------------------------------------------------- Init
\* The state after BotService.initialize(config): GridEngine.__init__,
\* GridEngine.initialize and _init_exchange (which sets SIM_RUNNING in sim
\* mode), RuntimeState defaults.
EngineInit ==
    /\ mode \in Modes
    /\ config = BaseConfig(mode)
    /\ engine_config = EngineView(config)
    /\ last_error = "none"
    /\ response = NoResponse
    /\ venue_orders \in IF mode = "sim" THEN {{}} ELSE SUBSET ExternalOrders
    /\ next_id = 3
    /\ mid \in MidPrices
    /\ active_orders = NoOrders
    /\ zone_map = InitialZoneMap
    /\ running = FALSE
    /\ bot_state = IF mode = "sim" THEN "SIM_RUNNING" ELSE "STOPPED"
    /\ active_levels = {}
    /\ pc_mon = "none" /\ open_order_ids = {} /\ todo = {} /\ cur = NoCur
    /\ pc_start = "idle" /\ start_level = -1 /\ start_mid = 0
    /\ start_levels = <<>> /\ start_caller = "api"
    /\ pc_stop = "idle" /\ stop_caller = "api"
    /\ pc_reset = "idle" /\ cancel_only = FALSE
    /\ ca_open = [p \in Callers |-> {}]
    /\ tick_result = "none" /\ tick_clean = FALSE /\ quiet = 0
    /\ last_toggle_off = 0 /\ last_adopt = NoAdopt
    /\ ca_streak = 0 /\ ca_clean = FALSE
    /\ ca_ok = [p \in Callers |-> FALSE]
    /\ ops = 0 /\ faults = 0 /\ events = 0

\* No function is applied on its own.
NoCall == [fn |-> "none"]
NoResult == [status |-> "none"]

NoSim == << >>
Init == EngineInit /\ fn_call = NoCall /\ fn_result = NoResult /\ sim = NoSim

\* --------------------------------------------------------------- venue
\* A resting order is filled: it leaves the venue's open orders.
VenueFill ==
    /\ \E o \in venue_orders : venue_orders' = venue_orders \ {o}
    /\ Env(0, 0, 1)
    /\ UNCHANGED <<next_id, mid>>
    /\ UNCHANGED <<engine_vars, monitor_vars, start_vars, stop_vars>>
    /\ External(last_toggle_off) /\ NotAdoption /\ NotCancelAll
    /\ Silent /\ UNCHANGED svc_vars
    /\ UNCHANGED fn_vars

\* The last-trade price moves.
TickerMove ==
    /\ \E m \in MidPrices \ {mid} : mid' = m
    /\ Env(0, 0, 1)
    /\ UNCHANGED <<venue_orders, next_id>>
    /\ UNCHANGED <<engine_vars, monitor_vars, start_vars, stop_vars>>
    /\ External(last_toggle_off) /\ NotAdoption /\ NotCancelAll
    /\ Silent /\ UNCHANGED svc_vars
    /\ UNCHANGED fn_vars

\* ------------------------------------------------- _monitor_orders task
\* End of a tick: asyncio.sleep, then the `while self.running` test, then
\* the next fetch_open_orders is issued.
EndTick(clean) ==
    /\ pc_mon' = IF running THEN "fetch" ELSE "none"
    /\ open_order_ids' = {} /\ todo' = {} /\ cur' = NoCur
    /\ tick_clean' = FALSE
    /\ quiet' = IF clean THEN Min(quiet + 1, 2) ELSE 0
    /\ UNCHANGED active_orders

\* An exception in the tick (line 329): logged, the tick is abandoned.
AbortTick ==
    /\ pc_mon' = IF running THEN "fetch" ELSE "none"
    /\ open_order_ids' = {} /\ todo' = {} /\ cur' = NoCur
    /\ tick_clean' = FALSE /\ quiet' = 0
    /\ UNCHANGED active_orders

\* The fill loop (lines 313-325) from the ids not yet visited up to the next
\* adapter call: the next id that is absent from the listing and open is
\* marked filled and _replace_order is entered for its level.
Scan(ids, listing, clean) ==
    LET cand == FilledIds(active_orders, ids, listing) IN
    IF cand = {} THEN EndTick(clean)
    ELSE \E k \in cand :
        IF k \notin DOMAIN active_orders
        THEN AbortTick           \* KeyError at line 319: the entry was removed
        ELSE /\ active_orders' = SetStatus(active_orders, {k}, "filled")
             /\ todo' = ids \ {k}
             /\ open_order_ids' = listing
             /\ tick_clean' = clean
             /\ quiet' = IF clean THEN quiet ELSE 0
             /\ IF running /\ ZoneEnabled(active_orders[k].level_index)
                THEN /\ pc_mon' = "ticker"      \* fetch_ticker pending
                     /\ cur' = [level |-> active_orders[k].level_index, side |-> "skip"]
                ELSE /\ pc_mon' = "pnl"         \* _replace_order returned
                     /\ cur' = NoCur

\* fetch_open_orders answers (lines 298-310).
MonitorFetch ==
    /\ pc_mon = "fetch"
    /\ \/ \* the call raises
          /\ Env(0, 1, 0)
          /\ tick_result' = "raised"
          /\ AbortTick
       \/ \* the adapter answers [] although orders rest on the venue
          /\ venue_orders # {}
          /\ Env(0, 1, 0)
          /\ tick_result' = IF DOMAIN active_orders # {} THEN "outage" ELSE "listed"
          /\ Scan(DOMAIN active_orders, {}, FALSE)
       \/ \* the adapter answers the venue's listing
          /\ Env(0, 0, 0)
          /\ tick_result' = IF VenueIds = {} /\ DOMAIN active_orders # {}
                            THEN "outage" ELSE "listed"
          /\ Scan(DOMAIN active_orders, VenueIds, TRUE)
    /\ UNCHANGED <<venue_vars, mode, zone_map, running, bot_state, active_levels>>
    /\ UNCHANGED <<start_vars, stop_vars, last_toggle_off>>
    /\ NotAdoption /\ NotCancelAll
    /\ Silent /\ UNCHANGED svc_vars
    /\ UNCHANGED fn_vars

\* fetch_ticker of _replace_order answers (lines 344-350).
MonitorTicker ==
    /\ pc_mon = "ticker"
    /\ \/ \* the call raises: caught at line 371, _update_pnl follows
          /\ Env(0, 1, 0)
          /\ pc_mon' = "pnl" /\ cur' = NoCur
          /\ tick_clean' = FALSE /\ quiet' = 0
       \/ \* a level index beyond self.levels raises IndexError, caught too
          LET side == IF cur.level \in LevelIdx
                      THEN determine_side(levels[cur.level], mid) ELSE "skip" IN
          /\ Env(0, 0, 0)
          /\ IF side = "skip"
             THEN pc_mon' = "pnl" /\ cur' = NoCur
             ELSE pc_mon' = "place" /\ cur' = [cur EXCEPT !.side = side]
          /\ UNCHANGED <<tick_clean, quiet>>
    /\ UNCHANGED <<venue_vars, engine_vars, open_order_ids, todo>>
    /\ UNCHANGED <<start_vars, stop_vars, last_toggle_off>>
    /\ tick_result' = "none"
    /\ NotAdoption /\ NotCancelAll
    /\ Silent /\ UNCHANGED svc_vars
    /\ UNCHANGED fn_vars

\* place_limit_order of _replace_order answers (lines 353-372).
MonitorPlace ==
    /\ pc_mon = "place"
    /\ \/ \* the call raises: nothing is recorded
          /\ Env(0, 1, 0)
          /\ UNCHANGED <<venue_orders, next_id, active_orders>>
          /\ tick_clean' = FALSE /\ quiet' = 0
       \/ /\ next_id <= MaxOrderId
          /\ Env(0, 0, 0)
          /\ venue_orders' = venue_orders \cup
                {[id |-> next_id, side |-> cur.side, price |-> levels[cur.level],
                  size |-> engine_config.position_size]}
          /\ next_id' = next_id + 1
          /\ active_orders' = Put(active_orders, next_id,
                PlacedInfo(cur.level, cur.side, levels[cur.level]))
          /\ UNCHANGED <<tick_clean, quiet>>
    /\ pc_mon' = "pnl" /\ cur' = NoCur
    /\ UNCHANGED <<mid, mode, zone_map, running, bot_state, active_levels>>
    /\ UNCHANGED <<open_order_ids, todo>>
    /\ UNCHANGED <<start_vars, stop_vars, last_toggle_off>>
    /\ tick_result' = "none"
    /\ NotAdoption /\ NotCancelAll
    /\ Silent /\ UNCHANGED svc_vars
    /\ UNCHANGED fn_vars

\* _update_pnl returns (its own failures are caught at line 449); the fill
\* loop goes on.
MonitorPnl ==
    /\ pc_mon = "pnl"
    /\ Env(0, 0, 0)
    /\ Scan(todo, open_order_ids, tick_clean)
    /\ UNCHANGED <<venue_vars, mode, zone_map, running, bot_state, active_levels>>
    /\ UNCHANGED <<start_vars, stop_vars, last_toggle_off>>
    /\ tick_result' = "none"
    /\ NotAdoption /\ NotCancelAll
    /\ Silent /\ UNCHANGED svc_vars
    /\ UNCHANGED fn_vars

Monitor == MonitorFetch \/ MonitorTicker \/ MonitorPlace \/ MonitorPnl

\* ------------------------------------------------- start_bot / start
\* The monitor task is created and the running state published
\* (lines 90-93); a task created while running is false ends at once.
StartDone ==
    /\ pc_start' = "idle" /\ start_level' = -1 /\ start_levels' = <<>>
    /\ pc_mon' = IF running THEN "fetch" ELSE "none"
    /\ bot_state' = IF mode = "sim" THEN "SIM_RUNNING" ELSE "RUNNING"
    /\ UNCHANGED <<open_order_ids, todo, cur>>
    /\ response' = Reply(CallOf(start_caller), TRUE)
    /\ start_caller' = "api"

\* A placement loop that does not consult validate_order.
StartLoopUnvalidated(from, m, lv) ==
    LET want == {i \in DOMAIN lv : i >= from /\ ZoneEnabled(i)
                                   /\ determine_side(lv[i], m) # "skip"} IN
    IF want # {}
    THEN /\ pc_start' = "place"
         /\ start_level' = CHOOSE i \in want : \A j \in want : i <= j
         /\ start_levels' = lv
         /\ UNCHANGED <<monitor_vars, bot_state, active_levels, start_caller>>
         /\ Silent
    ELSE /\ StartDone
         /\ active_levels' = EnabledLevels

\* The placement loop of _place_grid_orders (lines 225-271) from level
\* `from` up to the next place_limit_order, or to its end (lines 287-289).
\* A level whose order validate_order rejects is passed over (lines 242-251).
\* existing_levels is empty: it is computed while active_orders is empty.
\* lv is the list `enumerate(self.levels)` was given.
StartLoop(from, m, lv) ==
    LET want == {i \in DOMAIN lv :
                    /\ i >= from /\ ZoneEnabled(i)
                    /\ determine_side(lv[i], m) # "skip"
                    /\ validate_order(engine_config.exchange, engine_config.symbol,
                                      engine_config.position_size, lv[i])} IN
    IF want # {}
    THEN /\ pc_start' = "place"
         /\ start_level' = CHOOSE i \in want : \A j \in want : i <= j
         /\ start_levels' = lv
         /\ UNCHANGED <<monitor_vars, bot_state, active_levels, start_caller>>
         /\ Silent
    ELSE /\ StartDone
         /\ active_levels' = EnabledLevels

\* BotService.start_bot(confirm=True): config.enabled is set, then
\* GridEngine.start, lines 78-83.  An engine that is running already logs a
\* warning and returns, and start_bot reports success.
StartCall ==
    /\ pc_start = "idle"
    /\ config' = [config EXCEPT !.enabled = TRUE]
    /\ IF running
       THEN /\ UNCHANGED <<running, bot_state, pc_start>>    \* already running
            /\ response' = Reply("start", TRUE)
       ELSE /\ bot_state' = "STARTING"
            /\ running' = TRUE
            /\ pc_start' = "sync"                         \* fetch_open_orders pending
            /\ Silent
    /\ UNCHANGED <<venue_vars, mode, active_orders, zone_map, active_levels>>
    /\ UNCHANGED <<engine_config, last_error>>
    /\ UNCHANGED <<monitor_vars, start_level, start_mid, start_levels, start_caller,
                   stop_vars>>
    /\ External(0) /\ NotAdoption /\ NotCancelAll
    /\ UNCHANGED fn_vars

\* The operator issues the start command.
StartBot == StartCall /\ Env(1, 0, 0)

\* fetch_open_orders of _sync_with_exchange_orders answers (lines 155-209).
StartSync ==
    /\ pc_start = "sync"
    /\ \/ \* the call raises: the sync is given up, active_orders is kept
          /\ Env(0, 1, 0)
          /\ UNCHANGED <<active_orders, active_levels>>
          /\ NotAdoption
       \/ \E listing \in {venue_orders, {}} :
          /\ Env(0, IF listing = venue_orders THEN 0 ELSE 1, 0)
          /\ active_orders' = SyncWithExchange(active_orders, listing)
          /\ active_levels' = IF listing = {} /\ DOMAIN active_orders # {}
                              THEN active_levels ELSE LevelsOf(active_orders')
          /\ Adoption("startup", listing)
    /\ IF DOMAIN active_orders' # {}
       THEN StartDone                                     \* "using existing orders"
       ELSE /\ pc_start' = "ticker"                       \* fetch_ticker pending
            /\ UNCHANGED <<start_level, start_levels, start_caller, monitor_vars,
                           bot_state>>
            /\ Silent
    /\ UNCHANGED <<venue_vars, mode, zone_map, running, start_mid, stop_vars>>
    /\ UNCHANGED svc_vars
    /\ External(0) /\ NotCancelAll
    /\ UNCHANGED fn_vars

\* fetch_ticker of _place_grid_orders answers (lines 221-222).
StartRaisesStillRunning ==
    /\ bot_state' = "ERROR"
    /\ last_error' = "set"
    /\ UNCHANGED running

\* The except branch of start (lines 97-101): set_error(str(e)) records the
\* error, the engine stops running and the exception goes to the caller.
StartRaises ==
    /\ bot_state' = "ERROR"
    /\ last_error' = "set"
    /\ running' = FALSE

StartTicker ==
    /\ pc_start = "ticker"
    /\ \/ \* the call raises: start fails (lines 97-101), set_error records
          \* the error and the caller reports the failure
          /\ Env(0, 1, 0)
          /\ StartRaises
          /\ pc_start' = "idle"
          /\ response' = Reply(CallOf(start_caller), FALSE)
          /\ start_caller' = "api"
          /\ UNCHANGED <<start_level, start_mid, start_levels, monitor_vars,
                         active_levels>>
       \/ /\ Env(0, 0, 0)
          /\ start_mid' = mid
          /\ StartLoop(0, mid, levels)
          /\ UNCHANGED <<running, last_error>>
    /\ UNCHANGED <<venue_vars, mode, active_orders, zone_map, stop_vars>>
    /\ UNCHANGED <<engine_config, config>>
    /\ External(0) /\ NotAdoption /\ NotCancelAll
    /\ UNCHANGED fn_vars

\* place_limit_order of _place_grid_orders answers (lines 266-285).
StartPlace ==
    /\ pc_start = "place"
    /\ \/ \* the call raises: logged, the loop goes on
          /\ Env(0, 1, 0)
          /\ UNCHANGED <<venue_orders, next_id, active_orders>>
       \/ /\ next_id <= MaxOrderId
          /\ Env(0, 0, 0)
          /\ venue_orders' = venue_orders \cup
                {[id |-> next_id,
                  side |-> determine_side(start_levels[start_level], start_mid),
                  price |-> round_price(engine_config.exchange, engine_config.symbol,
                                        start_levels[start_level]),
                  size |-> round_size(engine_config.exchange, engine_config.symbol,
                                      engine_config.position_size)]}
          /\ next_id' = next_id + 1
          /\ active_orders' = Put(active_orders, next_id,
                PlacedInfo(start_level,
                           determine_side(start_levels[start_level], start_mid),
                           start_levels[start_level]))
    /\ StartLoop(start_level + 1, start_mid, start_levels)
    /\ UNCHANGED <<mid, mode, zone_map, running, start_mid, stop_vars>>
    /\ UNCHANGED svc_vars
    /\ External(0) /\ NotAdoption /\ NotCancelAll
    /\ UNCHANGED fn_vars

\* --------------------------------------------------- stop_bot / stop
\* A stop that leaves the monitor task alone.
StopEnterKeepsMonitor(caller) ==
    /\ bot_state' = "STOPPING"
    /\ running' = FALSE
    /\ UNCHANGED monitor_vars
    /\ pc_stop' = "fetch"
    /\ stop_caller' = caller

\* GridEngine.stop, lines 109-118: the monitor task is cancelled and
\* awaited, then _cancel_all_orders issues its fetch_open_orders.
StopEnter(caller) ==
    /\ bot_state' = "STOPPING"
    /\ running' = FALSE
    /\ pc_mon' = "none" /\ open_order_ids' = {} /\ todo' = {} /\ cur' = NoCur
    /\ pc_stop' = "fetch"
    /\ stop_caller' = caller

\* BotService.stop_bot(confirm=True) -> GridEngine.stop.  An engine that
\* is not running logs a warning and returns; stop_bot then clears
\* config.enabled and reports success (lines 70-85).
StopCall ==
    /\ pc_stop = "idle"
    /\ IF running
       THEN /\ StopEnter("api")
            /\ Silent /\ UNCHANGED config
       ELSE /\ UNCHANGED <<bot_state, running, monitor_vars, pc_stop, stop_caller>>
            /\ config' = [config EXCEPT !.enabled = FALSE]
            /\ response' = Reply("stop", TRUE)
    /\ UNCHANGED <<venue_vars, mode, active_orders, zone_map, active_levels>>
    /\ UNCHANGED <<engine_config, last_error>>
    /\ UNCHANGED <<start_vars, pc_reset, cancel_only, ca_open>>
    /\ External(0) /\ NotAdoption /\ NotCancelAll
    /\ UNCHANGED fn_vars

\* The operator issues the stop command.
StopBot == StopCall /\ Env(1, 0, 0)

\* Program counter of the caller of _cancel_all_orders.
PcOf(p) == IF p = "stop" THEN pc_stop ELSE pc_reset

\* fetch_open_orders of _cancel_all_orders answers (lines 380-382, 396).
CancelAllFetch(p) ==
    /\ PcOf(p) = "fetch"
    /\ \/ \* the call raises, or the adapter answers []: nothing is listed
          /\ Env(0, 1, 0)
          /\ ca_open' = [ca_open EXCEPT ![p] = {}]
          /\ ca_ok' = [ca_ok EXCEPT ![p] = (venue_orders = {})]
       \/ /\ Env(0, 0, 0)
          /\ ca_open' = [ca_open EXCEPT ![p] = VenueIds]
          /\ ca_ok' = [ca_ok EXCEPT ![p] = TRUE]
    /\ IF p = "stop"
       THEN pc_stop' = "cancel" /\ UNCHANGED pc_reset
       ELSE pc_reset' = "cancel" /\ UNCHANGED pc_stop
    /\ UNCHANGED <<venue_vars, engine_vars, monitor_vars, start_vars>>
    /\ UNCHANGED <<stop_caller, cancel_only>>
    /\ External(0) /\ NotAdoption
    /\ UNCHANGED <<ca_streak, ca_clean>>
    /\ Silent /\ UNCHANGED svc_vars
    /\ UNCHANGED fn_vars

\* GridEngine.initialize and _init_exchange as reset() calls them
\* (lines 147-149), followed by start() up to its fetch_open_orders: the
\* zone map is rebuilt from the configuration and, in sim mode, a fresh
\* SimulatedExchange replaces the old one (see CancelAll for the venue).
Reinitialize ==
    /\ zone_map' = InitialZoneMap
    /\ IF running
       THEN /\ bot_state' = IF mode = "sim" THEN "SIM_RUNNING" ELSE bot_state
            /\ UNCHANGED <<running, pc_start, start_caller>>
            /\ response' = Reply("reset", TRUE)     \* start() returns at once
       ELSE /\ bot_state' = "STARTING"
            /\ running' = TRUE
            /\ pc_start' = "sync"
            /\ start_caller' = "reset"
            /\ Silent

\* The cancel calls of _cancel_all_orders answer and the tracking is
\* cleared (lines 385-417): every listed order is cancelled, then every
\* tracked open order that was not listed; a failed cancel is logged.
\* Then the caller goes on: stop() publishes STOPPED, reset() restarts
\* unless cancel_only.
CancelAll(p) ==
    /\ PcOf(p) = "cancel"
    /\ \E failed \in SUBSET CancelTargets(ca_open[p], active_orders) :
          LET targets == CancelTargets(ca_open[p], active_orders) \ failed
              fresh == p = "reset" /\ ~cancel_only /\ mode = "sim"
          IN /\ venue_orders' = IF fresh THEN {}
                                ELSE {o \in venue_orders : o.id \notin targets}
             /\ next_id' = IF fresh THEN 3 ELSE next_id
             /\ ca_clean' = (ca_clean \/ (ca_ok[p] /\ failed = {}))
             /\ Env(0, IF failed = {} THEN 0 ELSE 1, 0)
    /\ active_orders' = NoOrders
    /\ active_levels' = {}
    /\ ca_open' = [ca_open EXCEPT ![p] = {}]
    /\ ca_streak' = Min(ca_streak + 1, 2)
    /\ ca_ok' = [ca_ok EXCEPT ![p] = FALSE]
    /\ IF p = "stop"
       THEN /\ bot_state' = "STOPPED"
            /\ pc_stop' = "idle"
            /\ stop_caller' = "api"
            /\ pc_reset' = IF stop_caller = "reset" THEN "fetch" ELSE pc_reset
            /\ UNCHANGED <<zone_map, running, pc_start, start_caller, cancel_only>>
            /\ IF stop_caller = "reset"
               THEN Silent /\ UNCHANGED config
               ELSE /\ config' = [config EXCEPT !.enabled = FALSE]
                    /\ response' = Reply("stop", TRUE)
       ELSE /\ pc_reset' = "idle"
            /\ cancel_only' = FALSE
            /\ UNCHANGED <<pc_stop, stop_caller, config>>
            /\ IF cancel_only
               THEN /\ UNCHANGED <<zone_map, running, bot_state, pc_start, start_caller>>
                    /\ response' = Reply("reset", TRUE)
               ELSE /\ pc_start = "idle" \/ running
                    /\ Reinitialize
    /\ UNCHANGED <<mid, mode, monitor_vars, start_level, start_mid, start_levels>>
    /\ UNCHANGED <<engine_config, last_error>>
    /\ External(0) /\ NotAdoption
    /\ UNCHANGED fn_vars

\* BotService.reset_bot(confirm=True, cancel_only=co) -> GridEngine.reset,
\* lines 136-140: stop() if running, then _cancel_all_orders.
ResetBot(co) ==
    /\ pc_reset = "idle"
    /\ Env(1, 0, 0)
    /\ cancel_only' = co
    /\ IF running
       THEN /\ pc_stop = "idle"
            /\ StopEnter("reset")
            /\ pc_reset' = "stop"
       ELSE /\ pc_reset' = "fetch"
            /\ UNCHANGED <<bot_state, running, monitor_vars, pc_stop, stop_caller>>
    /\ UNCHANGED <<venue_vars, mode, active_orders, zone_map, active_levels>>
    /\ UNCHANGED <<start_vars, ca_open>>
    /\ External(0) /\ NotAdoption /\ NotCancelAll
    /\ Silent /\ UNCHANGED svc_vars
    /\ UNCHANGED fn_vars

\* Variant that sets config.enabled before it looks at the confirm flag.
RejectedAfterEnable(call) ==
    /\ Env(1, 0, 0)
    /\ response' = ConfirmationRequired(call)
    /\ config' = [config EXCEPT !.enabled = (call = "start")]
    /\ UNCHANGED <<venue_vars, engine_vars, engine_config, last_error>>
    /\ UNCHANGED <<monitor_vars, start_vars, stop_vars>>
    /\ External(0) /\ NotAdoption /\ NotCancelAll
    /\ UNCHANGED fn_vars

\* start_bot, stop_bot and reset_bot called with confirm=False
\* (services.py lines 30-31, 63-64, 93-94): the call returns at once.
Rejected(call) ==
    /\ Env(1, 0, 0)
    /\ response' = ConfirmationRequired(call)
    /\ UNCHANGED <<venue_vars, engine_vars, svc_vars>>
    /\ UNCHANGED <<monitor_vars, start_vars, stop_vars>>
    /\ External(0) /\ NotAdoption /\ NotCancelAll
    /\ UNCHANGED fn_vars

\* ------------------------------------------------------- update_config
\* Variant that does not compare the venue.
RestartRequiredSameVenue(state, old, new) ==
    /\ state \in {"RUNNING", "SIM_RUNNING"}
    /\ \/ old.upper_bound # new.upper_bound
       \/ old.lower_bound # new.lower_bound
       \/ old.total_levels # new.total_levels
       \/ old.mode # new.mode

\* update_config, lines 135-142: the bot is running and a critical
\* parameter changed.
RestartRequired(state, old, new) ==
    /\ state \in {"RUNNING", "SIM_RUNNING"}
    /\ \/ old.upper_bound # new.upper_bound
       \/ old.lower_bound # new.lower_bound
       \/ old.total_levels # new.total_levels
       \/ old.mode # new.mode
       \/ old.exchange # new.exchange

\* The dict update_config returns.
ConfigReply(ok, restart) ==
    [call |-> "update_config", success |-> ok,
     message |-> IF ok THEN "done" ELSE "error", restart_required |-> restart]

\* GridEngine.initialize(new) as update_config calls it: configuration,
\* levels and zone map are replaced and _init_exchange builds the adapter:
\* a fresh SimulatedExchange in sim mode (which also publishes
\* SIM_RUNNING), the adapter of the configured venue otherwise.  Another
\* venue has its own resting orders.
InitializeWith(new) ==
    /\ engine_config' = EngineView(new)
    /\ mode' = new.mode
    /\ zone_map' = get_zone_levels(new.total_levels, new.zones)
    /\ bot_state' = IF new.mode = "sim" THEN "SIM_RUNNING" ELSE bot_state
    /\ IF new.mode = "sim"
       THEN venue_orders' = {} /\ next_id' = 3
       ELSE /\ UNCHANGED next_id
            /\ IF mode = "real" /\ new.exchange = engine_config.exchange
               THEN UNCHANGED venue_orders
               ELSE venue_orders' \in SUBSET ExternalOrders

\* BotService.update_config(new): the service's configuration is replaced;
\* the engine is initialized with it only when the published state is
\* STOPPED, otherwise the engine keeps the configuration it has.
UpdateConfig(new) ==
    /\ config' = new
    /\ IF RestartRequired(bot_state, config, new)
       THEN /\ Env(1, 0, 0)
            /\ response' = ConfigReply(TRUE, TRUE)
            /\ UNCHANGED <<venue_orders, next_id, mode, zone_map, bot_state, engine_config>>
       ELSE IF bot_state = "STOPPED"
       THEN /\ InitializeWith(new)
            /\ \/ Env(1, 0, 0) /\ response' = ConfigReply(TRUE, FALSE)
               \/ \* load_markets raises: the call ends with the exception
                  Env(1, 1, 0) /\ response' = ConfigReply(FALSE, FALSE)
       ELSE /\ Env(1, 0, 0)
            /\ response' = ConfigReply(TRUE, FALSE)
            /\ UNCHANGED <<venue_orders, next_id, mode, zone_map, bot_state, engine_config>>
    /\ UNCHANGED <<mid, active_orders, running, active_levels, last_error>>
    /\ UNCHANGED <<monitor_vars, start_vars, stop_vars>>
    /\ External(0) /\ NotAdoption /\ NotCancelAll
    /\ UNCHANGED fn_vars

\* ---------------------------------------------------- operator commands
\* GridEngine.toggle_zone: the zone's levels are switched; on a disable the
\* open orders at those levels are cancelled, a failed cancel is logged.
ToggleZone(z, enabled) ==
    LET lv == {i \in LevelIdx : zone_map[i].zone_id = z}
        hit == IF enabled THEN {}
               ELSE {k \in OpenIds(active_orders) : active_orders[k].level_index \in lv}
    IN
    /\ zone_map' = [i \in LevelIdx |->
                      IF i \in lv THEN [zone_map[i] EXCEPT !.enabled = enabled]
                      ELSE zone_map[i]]
    /\ \E failed \in SUBSET hit :
          /\ Env(1, IF failed = {} THEN 0 ELSE 1, 0)
          /\ venue_orders' = {o \in venue_orders : o.id \notin hit \ failed}
          /\ active_orders' = SetStatus(active_orders, hit \ failed, "cancelled")
    /\ active_levels' = {i \in LevelIdx : zone_map'[i].enabled}
    /\ UNCHANGED <<next_id, mid, mode, running, bot_state>>
    /\ UNCHANGED <<monitor_vars, start_vars, stop_vars>>
    /\ External(IF enabled THEN 0 ELSE z) /\ NotAdoption /\ NotCancelAll
    /\ Silent /\ UNCHANGED svc_vars
    /\ UNCHANGED fn_vars

\* GridEngine.cancel_order_at_level: the open order at the level is
\* cancelled; a failed cancel raises and changes nothing.
CancelOrderAtLevel(i) ==
    /\ \/ /\ \E k \in OpenAt(active_orders, i) :
                /\ venue_orders' = {o \in venue_orders : o.id # k}
                /\ active_orders' = SetStatus(active_orders, {k}, "cancelled")
          /\ Env(1, 0, 0)
       \/ \* the cancel raises
          /\ OpenAt(active_orders, i) # {}
          /\ Env(1, 1, 0)
          /\ UNCHANGED <<venue_orders, active_orders>>
       \/ \* no open order at the level
          /\ OpenAt(active_orders, i) = {}
          /\ Env(1, 0, 0)
          /\ UNCHANGED <<venue_orders, active_orders>>
    /\ UNCHANGED <<next_id, mid, mode, zone_map, running, bot_state, active_levels>>
    /\ UNCHANGED <<monitor_vars, start_vars, stop_vars>>
    /\ External(0) /\ NotAdoption /\ NotCancelAll
    /\ Silent /\ UNCHANGED svc_vars
    /\ UNCHANGED fn_vars

\* GridEngine.enable_order_at_level: refused for a disabled zone, for a
\* level that has an open order and for a level at the mid; otherwise an
\* order is placed and, if the call succeeds, recorded.
EnableOrderAtLevel(i) ==
    LET side == determine_side(levels[i], mid) IN
    /\ \/ /\ ZoneEnabled(i)
          /\ OpenAt(active_orders, i) = {}
          /\ side # "skip"
          /\ next_id <= MaxOrderId
          /\ Env(1, 0, 0)
          /\ venue_orders' = venue_orders \cup
                {[id |-> next_id, side |-> side, price |-> levels[i],
                  size |-> engine_config.position_size]}
          /\ next_id' = next_id + 1
          /\ active_orders' = Put(active_orders, next_id, PlacedInfo(i, side, levels[i]))
       \/ \* fetch_ticker or place_limit_order raises
          /\ ZoneEnabled(i) /\ OpenAt(active_orders, i) = {}
          /\ Env(1, 1, 0)
          /\ UNCHANGED <<venue_orders, next_id, active_orders>>
       \/ \* refused
          /\ ~ZoneEnabled(i) \/ OpenAt(active_orders, i) # {} \/ side = "skip"
          /\ Env(1, 0, 0)
          /\ UNCHANGED <<venue_orders, next_id, active_orders>>
    /\ UNCHANGED <<mid, mode, zone_map, running, bot_state, active_levels>>
    /\ UNCHANGED <<monitor_vars, start_vars, stop_vars>>
    /\ External(0) /\ NotAdoption /\ NotCancelAll
    /\ Silent /\ UNCHANGED svc_vars
    /\ UNCHANGED fn_vars

\* POST /sync/manual (manual_sync_orders): the tracking is cleared and the
\* request's orders are adopted.
ManualSyncOrders(orders) ==
    /\ Env(1, 0, 0)
    /\ active_orders' = ManualSync(active_orders, orders)
    /\ active_levels' = LevelsOf(active_orders')
    /\ UNCHANGED <<venue_vars, mode, zone_map, running, bot_state>>
    /\ UNCHANGED <<monitor_vars, start_vars, stop_vars>>
    /\ External(0) /\ Adoption("manual", orders) /\ NotCancelAll
    /\ Silent /\ UNCHANGED svc_vars
    /\ UNCHANGED fn_vars

\* DELETE /sync/manual (clear_manual_sync)
ClearManualSync ==
    /\ Env(1, 0, 0)
    /\ active_orders' = NoOrders
    /\ UNCHANGED <<venue_vars, mode, zone_map, running, bot_state, active_levels>>
    /\ UNCHANGED <<monitor_vars, start_vars, stop_vars>>
    /\ External(0) /\ NotAdoption /\ NotCancelAll
    /\ Silent /\ UNCHANGED svc_vars
    /\ UNCHANGED fn_vars

\* POST /orders/{order_id}/cancel (cancel_specific_order): the order is
\* cancelled on the venue and deleted; a failed cancel changes nothing.
CancelSpecificOrder(k) ==
    /\ k \in DOMAIN active_orders
    /\ \/ /\ Env(1, 0, 0)
          /\ venue_orders' = {o \in venue_orders : o.id # k}
          /\ active_orders' = Del(active_orders, k)
       \/ \* the cancel raises
          /\ Env(1, 1, 0)
          /\ UNCHANGED <<venue_orders, active_orders>>
    /\ UNCHANGED <<next_id, mid, mode, zone_map, running, bot_state, active_levels>>
    /\ UNCHANGED <<monitor_vars, start_vars, stop_vars>>
    /\ External(0) /\ NotAdoption /\ NotCancelAll
    /\ Silent /\ UNCHANGED svc_vars
    /\ UNCHANGED fn_vars

Operator ==
    \/ \E z \in ZoneIds, e \in BOOLEAN : ToggleZone(z, e)
    \/ \E i \in LevelIdx : CancelOrderAtLevel(i)
    \/ \E i \in LevelIdx : EnableOrderAtLevel(i)
    \/ \E orders \in SUBSET ExternalOrders \cup {venue_orders} : ManualSyncOrders(orders)
    \/ ClearManualSync
    \/ \E k \in 1..MaxOrderId : CancelSpecificOrder(k)
    \/ \E new \in ConfigChoices(mode) : UpdateConfig(new)

LifeCycle ==
    \/ StartBot \/ StartSync \/ StartTicker \/ StartPlace
    \/ StopBot
    \/ \E co \in BOOLEAN : ResetBot(co)
    \/ \E p \in Callers : CancelAllFetch(p)
    \/ \E p \in Callers : CancelAll(p)

\* A life-cycle command sent without confirmation.
Unconfirmed == \E c \in Commands : Rejected(c)

Venue == VenueFill \/ TickerMove

Next == Venue \/ Monitor \/ LifeCycle \/ Unconfirmed \/ Operator

Spec == Init /\ [][Next]_vars

\* The engine started and monitored, with the operator's level commands.
NextOutage ==
    \/ Venue \/ Monitor
    \/ StartBot \/ StartSync \/ StartTicker \/ StartPlace
    \/ \E i \in LevelIdx : CancelOrderAtLevel(i)
    \/ \E i \in LevelIdx : EnableOrderAtLevel(i)

SpecOutage == Init /\ [][NextOutage]_vars

\* The life-cycle calls with the venue's fills.
NextCancelAll == VenueFill \/ LifeCycle

SpecCancelAll == Init /\ [][NextCancelAll]_vars

\* Start and stop with the manual-sync commands.
NextAdopt ==
    \/ VenueFill
    \/ StartBot \/ StartSync \/ StartTicker \/ StartPlace
    \/ StopBot \/ CancelAllFetch("stop") \/ CancelAll("stop")
    \/ \E orders \in SUBSET ExternalOrders \cup {venue_orders} : ManualSyncOrders(orders)
    \/ ClearManualSync

SpecAdopt == Init /\ [][NextAdopt]_vars

\* startup_event (app.py, lines 95-113): right after BotService.initialize
\* the orders saved by an earlier manual sync are read from
\* manual_sync_orders.json into active_orders, with the keys the manual sync
\* stored; RuntimeState.active_levels is not touched.
LoadManualSync(orders) ==
    /\ ~running /\ pc_start = "idle" /\ pc_stop = "idle" /\ pc_reset = "idle"
    /\ active_orders = NoOrders /\ orders # {}
    /\ ops = 0 /\ Env(0, 0, 0)
    /\ active_orders' = ManualSync(active_orders, orders)
    /\ UNCHANGED <<venue_vars, mode, zone_map, running, bot_state, active_levels>>
    /\ UNCHANGED <<monitor_vars, start_vars, stop_vars>>
    /\ External(0) /\ NotAdoption /\ NotCancelAll
    /\ Silent /\ UNCHANGED svc_vars
    /\ UNCHANGED fn_vars

\* The service starts up with saved manual-sync orders and is started.
NextStartup ==
    \/ \E orders \in SUBSET ExternalOrders : LoadManualSync(orders)
    \/ VenueFill
    \/ StartBot \/ StartSync \/ StartTicker \/ StartPlace

SpecStartup == Init /\ [][NextStartup]_vars

\* The fair behaviours in which every adapter call succeeds: the monitor
\* task and a start in progress are always scheduled again.
NoFault == faults' = faults

NextLive ==
    \/ Venue /\ NoFault
    \/ Monitor /\ NoFault
    \/ (StartBot \/ StartSync \/ StartTicker \/ StartPlace) /\ NoFault

SpecLive ==
    /\ Init /\ [][NextLive]_vars
    /\ WF_vars(Monitor /\ NoFault)
    /\ WF_vars((StartSync \/ StartTicker \/ StartPlace) /\ NoFault)

\* The fair behaviours in which the only adapter call that may fail is
\* place_limit_order, of the placement loop of start and of _replace_order;
\* it fails at most MaxFaults times, after which the adapter has recovered.
NextRetry ==
    \/ Venue /\ NoFault
    \/ (MonitorFetch \/ MonitorTicker \/ MonitorPnl) /\ NoFault
    \/ MonitorPlace
    \/ (StartBot \/ StartSync \/ StartTicker) /\ NoFault
    \/ StartPlace

SpecRetry ==
    /\ Init /\ [][NextRetry]_vars
    /\ WF_vars((MonitorFetch \/ MonitorTicker \/ MonitorPnl) /\ NoFault)
    /\ WF_vars(MonitorPlace)
    /\ WF_vars((StartSync \/ StartTicker) /\ NoFault)
    /\ WF_vars(StartPlace)

\* The life-cycle calls run one after the other: a call is accepted only
\* when no other is in flight.
LifeCycleIdle == pc_start = "idle" /\ pc_stop = "idle" /\ pc_reset = "idle"

NextSequential ==
    \/ Venue \/ Monitor \/ Operator \/ Unconfirmed
    \/ LifeCycleIdle /\ LifeCycle
    \/ ~LifeCycleIdle /\ (StartSync \/ StartTicker \/ StartPlace)
    \/ ~LifeCycleIdle /\ \E p \in Callers : CancelAllFetch(p) \/ CancelAll(p)

SpecSequential == Init /\ [][NextSequential]_vars

\* Start and stop issued any number of times, each call free to overlap
\* the other; the number of orders and of adapter failures stays bounded.
NextStartStop ==
    \/ StartCall /\ UNCHANGED env_vars
    \/ StartSync \/ StartTicker \/ StartPlace
    \/ StopCall /\ UNCHANGED env_vars
    \/ CancelAllFetch("stop") \/ CancelAll("stop")

SpecStartStop == Init /\ [][NextStartStop]_vars

\* Start and stop, confirmed and unconfirmed.
NextConfirm ==
    \/ VenueFill
    \/ StartBot \/ StartSync \/ StartTicker \/ StartPlace
    \/ StopBot \/ CancelAllFetch("stop") \/ CancelAll("stop")
    \/ Unconfirmed

SpecConfirm == Init /\ [][NextConfirm]_vars

\* Start and stop with the operator's configuration updates.
NextConfig ==
    \/ StartBot \/ StartSync \/ StartTicker \/ StartPlace
    \/ StopBot \/ CancelAllFetch("stop") \/ CancelAll("stop")
    \/ \E new \in ConfigChoices(mode) : UpdateConfig(new)

SpecConfig == Init /\ [][NextConfig]_vars

\* ------------------------------------------- functions applied on their own
\* The sides BitkubExchange.cancel_order tries, in its order, when the id is
\* not in the listing.
SidesToTry == <<"sell", "buy">>

\* A cancel that, for an id absent from the listing, tries the default side
\* only.
cancel_order_default_side(order_id, listing, accepts) ==
    IF ~listing.ok
    THEN [status |-> "raised", attempts |-> <<>>]
    ELSE IF \E o \in listing.orders : o.id = order_id
    THEN LET order_side == (CHOOSE o \in listing.orders : o.id = order_id).side IN
         [status |-> IF order_side \in accepts THEN "cancelled" ELSE "raised",
          attempts |-> <<order_side>>]
    ELSE [status |-> IF "buy" \in accepts THEN "cancelled" ELSE "raised",
          attempts |-> <<"buy">>]

\* BitkubExchange.cancel_order(order_id): `listing` is what fetch_open_orders
\* does (it raises, or it returns orders with their sides), `accepts` the
\* sides for which the venue's cancel-order request succeeds.  The result
\* is the status returned, or "raised", with the sides of the cancel
\* requests sent, in their order.
cancel_order(order_id, listing, accepts) ==
    IF ~listing.ok
    THEN [status |-> "raised", attempts |-> <<>>]
    ELSE IF \E o \in listing.orders : o.id = order_id
    THEN LET order_side == (CHOOSE o \in listing.orders : o.id = order_id).side IN
         [status |-> IF order_side \in accepts THEN "cancelled" ELSE "raised",
          attempts |-> <<order_side>>]
    ELSE IF SidesToTry[1] \in accepts
    THEN [status |-> "cancelled", attempts |-> <<SidesToTry[1]>>]
    ELSE [status |-> IF SidesToTry[2] \in accepts THEN "cancelled" ELSE "raised",
          attempts |-> SidesToTry]

\* One price unit is the tolerance of determine_side, 0.00001.
PriceUnit == 100000

\* Arguments of determine_side: the mid price 150, with the prices around
\* it and the levels of the five-level grid from 100 to 200.
SideCalls ==
    LET mid_price == 150 * PriceUnit
        grid == calculate_fixed_grid(100 * PriceUnit, 200 * PriceUnit, 5) IN
    {[fn |-> "determine_side", price |-> p, mid_price |-> mid_price] :
        p \in ((mid_price - MaxDelta)..(mid_price + MaxDelta))
               \cup {grid[i] : i \in DOMAIN grid}}

\* Arguments of calculate_fixed_grid, the ones it refuses included.
GridCalls ==
    [fn : {"calculate_fixed_grid"}, lower_bound : 1..MaxLower,
     upper_bound : 1..MaxUpper, total_levels : 1..MaxLevels]

\* What fetch_open_orders may do within cancel_order: raise, or list each of
\* the orders 1 and 2 with a side or not at all.
Listings ==
    {[ok |-> FALSE, orders |-> {}]} \cup
    {[ok |-> TRUE, orders |-> l] :
        l \in {x \in SUBSET [id : {1, 2}, side : {"buy", "sell"}] :
                 \A a, b \in x : a.id = b.id => a = b}}

\* Arguments of cancel_order, for order 1.
CancelCalls ==
    [fn : {"cancel_order"}, order_id : {1}, listing : Listings,
     accepts : SUBSET {"buy", "sell"}]

\* Orders given to the two adoption paths: the startup sync reads them from
\* the venue's listing, the manual sync from the request.
AdoptCalls ==
    [fn : {"adopt"}, path : {"startup", "manual"},
     order : [id : {1}, side : {"buy", "sell"}, price : 0..MaxAdoptPrice,
              size : {1, 2}]]

\* The quote-currency value BitkubExchange.place_limit_order gives every
\* order, in THB.
FixedThb == 100

\* The request BitkubExchange.place_limit_order sends for an order of
\* `amount` base units at `price` (lines 184-203).  amt is the exact
\* quotient amt_num / amt_den.
place_limit_order_params(symbol, side, price, amount) ==
    [endpoint |-> IF side = "buy" THEN "/api/v3/market/place-bid"
                  ELSE "/api/v3/market/place-ask",
     sym |-> IF symbol = "THB_BTC" THEN "BTC_THB" ELSE symbol,
     amt_num |-> FixedThb,
     amt_den |-> IF side = "buy" THEN 1 ELSE price,
     rat |-> price,
     typ |-> "limit"]

\* The orders the engine hands to the Bitkub adapter: a side, a level
\* price in THB and a size in base units.
PlaceCalls ==
    [fn : {"place_limit_order"}, symbol : {"THB_BTC"}, side : {"buy", "sell"},
     price : {10, 20, 50, 100}, amount : {1, 2, 5, 10}]

InitPure ==
    /\ EngineInit /\ mode = "real" /\ venue_orders = {} /\ mid \in MidPrices
    /\ fn_call \in SideCalls \cup GridCalls \cup CancelCalls \cup AdoptCalls
                   \cup PlaceCalls
    /\ fn_result = NoResult
    /\ sim = NoSim

\* determine_side is applied.
ApplySide ==
    /\ fn_call.fn = "determine_side" /\ fn_result = NoResult
    /\ fn_result' = [status |-> "returned",
                     value |-> determine_side(fn_call.price, fn_call.mid_price)]
    /\ UNCHANGED <<prog_vars, fn_call, sim>>

\* calculate_fixed_grid is applied: it raises ValueError for fewer than two
\* levels and for an upper bound that is not above the lower (lines 12-15).
ApplyGrid ==
    /\ fn_call.fn = "calculate_fixed_grid" /\ fn_result = NoResult
    /\ fn_result' =
          IF fn_call.total_levels < 2 \/ fn_call.upper_bound <= fn_call.lower_bound
          THEN [status |-> "raised"]
          ELSE [status |-> "returned",
                value |-> calculate_fixed_grid(fn_call.lower_bound, fn_call.upper_bound,
                                               fn_call.total_levels)]
    /\ UNCHANGED <<prog_vars, fn_call, sim>>

\* cancel_order is applied.
ApplyCancel ==
    /\ fn_call.fn = "cancel_order" /\ fn_result = NoResult
    /\ fn_result' = cancel_order(fn_call.order_id, fn_call.listing, fn_call.accepts)
    /\ UNCHANGED <<prog_vars, fn_call, sim>>

\* One order is adopted: the entry _sync_with_exchange_orders or
\* manual_sync_orders stores for it.
ApplyAdopt ==
    /\ fn_call.fn = "adopt" /\ fn_result = NoResult
    /\ fn_result' = [status |-> "returned",
                     value |-> IF fn_call.path = "startup"
                               THEN SyncWithExchange(NoOrders, {fn_call.order})[fn_call.order.id]
                               ELSE ManualSync(NoOrders, {fn_call.order})[fn_call.order.id]]
    /\ UNCHANGED <<prog_vars, fn_call, sim>>

\* BitkubExchange.place_limit_order builds its request.
ApplyPlace ==
    /\ fn_call.fn = "place_limit_order" /\ fn_result = NoResult
    /\ fn_result' = [status |-> "returned",
                     value |-> place_limit_order_params(fn_call.symbol, fn_call.side,
                                                        fn_call.price, fn_call.amount)]
    /\ UNCHANGED <<prog_vars, fn_call, sim>>

NextPure == ApplySide \/ ApplyGrid \/ ApplyCancel \/ ApplyAdopt \/ ApplyPlace

SpecPure == InitPure /\ [][NextPure]_vars

\* ------------------------------------------------------------- sanity
TypeOK ==
    /\ DOMAIN active_orders \subseteq 1..MaxOrderId
    /\ \A k \in DOMAIN active_orders :
          /\ active_orders[k].level_index \in Nat
          /\ active_orders[k].status \in {"open", "filled", "cancelled"}
    /\ pc_mon \in {"none", "fetch", "ticker", "place", "pnl"}
    /\ pc_start \in {"idle", "sync", "ticker", "place"}
    /\ pc_stop \in {"idle", "fetch", "cancel"}
    /\ pc_reset \in {"idle", "stop", "fetch", "cancel"}
    /\ bot_state \in {"STOPPED", "STARTING", "RUNNING", "STOPPING", "ERROR", "SIM_RUNNING"}
    /\ last_error \in {"none", "set"}
    /\ response.call \in {"none", "update_config"} \cup Commands
    /\ DOMAIN zone_map \subseteq LevelIdx
    /\ quiet \in 0..2 /\ ca_streak \in 0..2

\* A start in flight has no monitor task beside it.
OneMonitor == pc_start # "idle" => pc_mon = "none"

\* ================================================================ claims
\* No life-cycle call and no tick is in progress.
Quiescent ==
    /\ LifeCycleIdle
    /\ pc_mon \in {"none", "fetch"}

\* The tick is between its open-orders snapshot and its end.
InTick == pc_mon \in {"ticker", "place", "pnl"}

\* Levels that should hold an order: zone enabled, polarity not skip.
WantedLevels ==
    {i \in LevelIdx : ZoneEnabled(i) /\ determine_side(levels[i], mid) # "skip"}

\* C1: exactly-one policy -- in every reachable state active_orders holds at
\* most one entry with status open per level_index.
C1_ExactlyOne ==
    \A i \in LevelIdx : Cardinality(OpenAt(active_orders, i)) <= 1

\* C2: API-outage guard -- a tick whose fetch_open_orders answers an empty
\* list while active_orders is non-empty marks no order filled and places
\* nothing; and when the very next tick is given the listing with every
\* tracked open order in it, that tick places nothing either.
C2_OutageGuard ==
    [][(tick_result' = "outage" \/
        (tick_result = "outage" /\ tick_result' = "listed"
            /\ OpenIds(active_orders) \subseteq VenueIds))
       => (/\ active_orders' = active_orders
           /\ venue_orders' = venue_orders /\ next_id' = next_id
           /\ pc_mon' \in {"fetch", "none"})]_vars

\* The adapter has answered [] to the monitor although orders rest on the
\* venue and open orders are tracked.
C2_Witness ==
    tick_result = "outage" /\ venue_orders # {} /\ OpenIds(active_orders) # {}

\* A tracked open order at level i has left the venue's open orders.
FillAt(i) == running /\ \E k \in OpenAt(active_orders, i) : k \notin VenueIds

\* C3: fill replacement is live -- while the engine runs, a fill of the
\* tracked open order at a level whose zone is enabled and whose price is
\* off the mid leads to an open entry at that level whose order rests on
\* the venue (as long as the venue has an order id left to give).
C3_FillReplaced ==
    \A i \in InitialLevelIdx :
        FillAt(i) ~>
            \/ ~running \/ i \notin WantedLevels \/ next_id > MaxOrderId
            \/ \E k \in OpenAt(active_orders, i) : k \in VenueIds

\* C4: steady-state convergence -- once two ticks have completed without an
\* external event, the open entries are exactly one per level whose zone is
\* enabled and whose polarity against the mid is not skip.
C4_SteadyState ==
    quiet = 2 =>
        /\ Cardinality(OpenIds(active_orders)) = Cardinality(WantedLevels)
        /\ \A i \in LevelIdx : Cardinality(OpenAt(active_orders, i)) <= 1

\* C5: operator mutations never interleave with a tick -- between the
\* tick's snapshot and its end, a step that changes active_orders is not a
\* step in which a command was issued.
C5_TickIsolated ==
    [][(InTick /\ active_orders' # active_orders) => ops' = ops]_vars

\* C6: life-cycle operations are serialized -- whenever no life-cycle call
\* is in flight the engine is in a state some sequential order of the calls
\* produces: the monitor task is alive exactly when the engine is running, a
\* running engine is published as RUNNING or SIM_RUNNING, and a state
\* published as RUNNING or ERROR belongs to a running resp. stopped engine.
C6_Serialized ==
    LifeCycleIdle =>
        /\ running <=> pc_mon # "none"
        /\ running => bot_state \in {"RUNNING", "SIM_RUNNING"}
        /\ bot_state = "RUNNING" => running
        /\ bot_state \in {"STOPPED", "ERROR"} => ~running

\* C7: filled and cancelled orders are removed as soon as they are observed
\* -- after any tick or command has completed every entry of active_orders
\* has status open.
C7_OnlyOpenEntries ==
    Quiescent => \A k \in DOMAIN active_orders : active_orders[k].status = "open"

C9_AdoptionIdempotent ==
    /\ last_adopt.path # "none" /\ last_adopt.input # {} =>
            DOMAIN active_orders = {o.id : o \in last_adopt.input}
    /\ last_adopt.twice => active_orders = last_adopt.result

\* The same non-empty order set has been adopted twice in a row.
C9_Witness ==
    last_adopt.twice /\ last_adopt.input # {}

\* C10: zone disable cancels -- after toggle_zone(z, false), once the next
\* tick has completed no open entry lies in zone z; and the toggle leaves
\* the entries at levels outside zone z as they were.
C10_ZoneDisableCancels ==
    /\ [](last_toggle_off # 0 /\ quiet >= 1 =>
            \A k \in OpenIds(active_orders) :
                active_orders[k].zone_id # last_toggle_off)
    /\ [][(ops' = ops + 1 /\ last_toggle_off' # 0) =>
            \A k \in DOMAIN active_orders :
                active_orders[k].zone_id # last_toggle_off' =>
                    k \in DOMAIN active_orders' /\ active_orders'[k] = active_orders[k]]_vars

\* C11: start while running is rejected -- a confirmed start issued while
\* the engine is running returns success=false and leaves bot_state,
\* active_orders, config.enabled, the monitor task and the venue's orders
\* as they were.
C11_StartWhileRunningRejected ==
    [][(running /\ ops' = ops + 1 /\ response'.call = "start"
            /\ response'.message # "Confirmation required") =>
        /\ response'.success = FALSE
        /\ UNCHANGED <<bot_state, active_orders, config, pc_mon, venue_orders>>]_vars

\* C12: confirmation required -- start_bot, stop_bot and reset_bot called
\* with confirm=false return success=false with the message "Confirmation
\* required" and leave bot_state, active_orders, config.enabled and the
\* venue's orders unchanged.
C12_ConfirmationRequired ==
    [][(ops' = ops + 1 /\ response'.message = "Confirmation required") =>
        /\ response'.success = FALSE
        /\ response'.call \in Commands
        /\ UNCHANGED <<bot_state, active_orders, config, venue_orders>>]_vars

\* An unconfirmed stop has just been answered while the engine runs with
\* tracked orders resting on the venue.
C12_Witness ==
    /\ response = ConfirmationRequired("stop")
    /\ running /\ config.enabled
    /\ OpenIds(active_orders) # {} /\ venue_orders # {}

\* C13: initial state -- after the service has been initialized and before
\* any command is issued bot_state is STOPPED, in live and in simulated
\* mode.
C13_InitiallyStopped ==
    ops = 0 => bot_state = "STOPPED"

\* C14: life-cycle transitions -- a confirmed start accepted in STOPPED
\* publishes STARTING and sets config.enabled; when it returns success the
\* state goes from STARTING to RUNNING (live) or SIM_RUNNING (simulated); a
\* confirmed stop issued in RUNNING or SIM_RUNNING publishes STOPPING, and
\* when it returns success the state goes from STOPPING to STOPPED with
\* config.enabled false.
C14_LifeCycleEdges ==
    [][/\ (ops' = ops + 1 /\ pc_start = "idle" /\ pc_start' = "sync"
            /\ bot_state = "STOPPED") =>
            bot_state' = "STARTING" /\ config'.enabled
       /\ (response' = Reply("start", TRUE) /\ pc_start # "idle") =>
            /\ bot_state = "STARTING"
            /\ bot_state' = IF mode = "sim" THEN "SIM_RUNNING" ELSE "RUNNING"
            /\ config'.enabled
       /\ (ops' = ops + 1 /\ response'.call \in {"none", "stop"}
            /\ pc_stop = "idle" /\ pc_reset' = pc_reset
            /\ (pc_stop' = "fetch" \/ response' = Reply("stop", TRUE))
            /\ bot_state \in {"RUNNING", "SIM_RUNNING"}) =>
            bot_state' = "STOPPING"
       /\ (response' = Reply("stop", TRUE) /\ pc_stop # "idle") =>
            /\ bot_state = "STOPPING"
            /\ bot_state' = "STOPPED"
            /\ ~config'.enabled]_vars

\* C15: stop postcondition -- when a confirmed stop of a running engine
\* completes, bot_state is STOPPED, the engine is not running, no monitor
\* task is alive, active_orders is empty and active_levels is empty.
C15_StopPostcondition ==
    [][(response' = Reply("stop", TRUE) /\ pc_stop = "cancel") =>
        /\ bot_state' = "STOPPED"
        /\ ~running'
        /\ pc_mon' = "none"
        /\ active_orders' = NoOrders
        /\ active_levels' = {}]_vars

\* C16: fatal errors stop the loop -- when an adapter call of the monitor
\* loop raises, bot_state becomes ERROR, last_error is set and the loop
\* performs no further tick.
C16_FatalErrorStopsLoop ==
    [][tick_result' = "raised" =>
        /\ bot_state' = "ERROR"
        /\ last_error' = "set"
        /\ pc_mon' = "none"]_vars

\* The parameters whose change needs a restart: lower bound, upper bound,
\* level count, mode and venue.
CriticalFields == {"lower_bound", "upper_bound", "total_levels", "mode", "exchange"}

C18_HotApply ==
    [][(response'.call = "update_config" /\ running
            /\ bot_state \in {"RUNNING", "SIM_RUNNING"}
            /\ \A f \in CriticalFields : config[f] = config'[f]
            /\ (config.zones # config'.zones
                    \/ config.position_size # config'.position_size)) =>
        /\ ~response'.restart_required
        /\ zone_map' = get_zone_levels(config'.total_levels, config'.zones)
        /\ engine_config'.position_size = config'.position_size]_vars

\* C19: reset(cancel_only=true) -- while the call is in progress the engine
\* places no order, and when it returns the engine is not running, no
\* monitor task is alive, active_orders is empty and active_levels is
\* empty.
C19_ResetCancelOnly ==
    [][/\ (pc_reset # "idle" /\ cancel_only /\ ops' = ops) =>
            next_id' <= next_id
       /\ (response' = Reply("reset", TRUE) /\ pc_reset = "cancel" /\ cancel_only) =>
            /\ ~running'
            /\ pc_mon' = "none"
            /\ active_orders' = NoOrders
            /\ active_levels' = {}]_vars

\* C20: reset clears the error -- when reset returns, last_error is unset,
\* and active_levels is empty if the reset did not restart the bot.
C20_ResetClearsError ==
    [][(response' = Reply("reset", TRUE)) =>
        /\ last_error' = "none"
        /\ (pc_reset = "cancel" /\ cancel_only) => active_levels' = {}]_vars

\* C21: active_levels mirrors the live orders -- whenever no life-cycle call
\* and no tick is in progress, active_levels equals the set of level
\* indices that have an open entry in active_orders.
C21_ActiveLevelsMirror ==
    Quiescent =>
        active_levels = {active_orders[k].level_index : k \in OpenIds(active_orders)}

\* C25: next-tick replacement -- the monitor issues no place_limit_order for
\* a level whose fill it has detected in the tick that is still in
\* progress: an entry it marked filled in this tick (a tracked entry with
\* status filled that the fill loop has already visited) is not at the
\* level of the placement.
C25_NextTickReplacement ==
    [][(pc_mon = "place" /\ next_id' = next_id + 1) =>
        ~\E k \in DOMAIN active_orders :
            /\ active_orders[k].status = "filled"
            /\ k \notin todo
            /\ active_orders[k].level_index = cur.level]_vars

\* The part of the level list the placement loop of _place_grid_orders has
\* still to visit when fetch_ticker or place_limit_order answers.
LoopFrom == IF pc_start = "place" THEN start_level + 1 ELSE 0
LoopLevels == IF pc_start = "place" THEN start_levels ELSE levels

\* A step of the placement loop: fetch_ticker has answered with a price, or
\* place_limit_order has answered or raised.
LoopStep ==
    \/ pc_start = "ticker" /\ pc_start' # "ticker" /\ faults' = faults
    \/ pc_start = "place" /\ (pc_start' # "place" \/ start_level' # start_level)

\* validate_order as _place_grid_orders calls it for a level price.
ValidLevel(price) ==
    validate_order(engine_config.exchange, engine_config.symbol,
                   engine_config.position_size, price)

\* Level j of the loop gets no place_limit_order: its zone is disabled, its
\* side is skip, or validation rejects it.
PassedOver(j) ==
    \/ ~ZoneEnabled(j)
    \/ determine_side(LoopLevels[j], start_mid') = "skip"
    \/ ~ValidLevel(LoopLevels[j])

\* C28: validator rejections are per-level -- whenever the placement loop
\* of start moves on (the ticker or a placement has answered), the level it
\* places next is an enabled, non-skip level that passed validation, every
\* level it passed over is disabled, skip or rejected by the validator (so
\* a rejected level gets no order and no entry, and no other level is
\* dropped because of it), an order it records is recorded at the level it
\* was placing, and when the loop ends start completes in RUNNING or
\* SIM_RUNNING.
C28_RejectionsPerLevel ==
    [][LoopStep =>
        /\ pc_start' = "place" =>
              /\ start_level' \in DOMAIN LoopLevels
              /\ start_level' >= LoopFrom
              /\ ~PassedOver(start_level')
              /\ \A j \in LoopFrom..(start_level' - 1) : PassedOver(j)
        /\ pc_start' = "idle" =>
              /\ \A j \in DOMAIN LoopLevels : j >= LoopFrom => PassedOver(j)
              /\ bot_state' \in {"RUNNING", "SIM_RUNNING"}
        /\ \A k \in DOMAIN active_orders' \ DOMAIN active_orders :
              /\ pc_start = "place"
              /\ active_orders'[k].level_index = start_level
              /\ ValidLevel(active_orders'[k].price)]_vars

\* A start has completed in RUNNING on a grid with one level the validator
\* rejects: that level has no entry, every other level has an open one.
C28_Witness ==
    /\ pc_start = "idle" /\ bot_state = "RUNNING" /\ running
    /\ \E i \in LevelIdx :
          /\ ZoneEnabled(i) /\ determine_side(levels[i], mid) # "skip"
          /\ ~ValidLevel(levels[i])
          /\ \A k \in DOMAIN active_orders : active_orders[k].level_index # i
          /\ \A j \in LevelIdx \ {i} : OpenAt(active_orders, j) # {}

\* C29: every place_limit_order the engine issues is preceded by a
\* successful validation -- an order handed to the venue either comes from
\* the placement loop of start, which validates each level before placing,
\* or (fill replacement, enable_level) is one validate_order accepts for the
\* size sent and the level price recorded.
C29_ValidatedBeforePlaced ==
    [][next_id' = next_id + 1 =>
        \A o \in venue_orders' \ venue_orders :
            \/ pc_start = "place" /\ start_level' # start_level
            \/ /\ o.id \in DOMAIN active_orders'
               /\ validate_order(engine_config.exchange, engine_config.symbol,
                                 o.size, active_orders'[o.id].price)]_vars

\* The price tick and the size step of the configured market divide p and z.
OnTick(p) == round_price(engine_config.exchange, engine_config.symbol, p) = p
OnStep(z) == round_size(engine_config.exchange, engine_config.symbol, z) = z

\* Level j keeps no claim to an order although quantized first: its zone is
\* disabled, its side is skip, or the rounded price and size fail validation.
PassedOverQuantized(j) ==
    \/ ~ZoneEnabled(j)
    \/ determine_side(LoopLevels[j], start_mid') = "skip"
    \/ ~validate_order(engine_config.exchange, engine_config.symbol,
                       round_size(engine_config.exchange, engine_config.symbol,
                                  engine_config.position_size),
                       round_price(engine_config.exchange, engine_config.symbol,
                                   LoopLevels[j]))

\* C30: prices and sizes are quantized before use -- the placement loop of
\* start passes over a level only if its zone is disabled, its side is skip
\* or its rounded price and size fail validation (a level with an off-tick
\* raw price whose rounded values meet the minima is placed), and every
\* order the engine hands to the venue has a price that is a multiple of
\* the price tick and a size that is a multiple of the size step.
C30_QuantizedBeforeUse ==
    [][/\ LoopStep =>
           /\ pc_start' = "place" =>
                 \A j \in LoopFrom..(start_level' - 1) : PassedOverQuantized(j)
           /\ pc_start' = "idle" =>
                 \A j \in DOMAIN LoopLevels : j >= LoopFrom => PassedOverQuantized(j)
       /\ next_id' = next_id + 1 =>
           \A o \in venue_orders' \ venue_orders : OnTick(o.price) /\ OnStep(o.size)]_vars

\* fetch_open_orders of the monitor has answered with the venue's listing.
Listed == tick_result' \in {"listed", "outage"} /\ faults' = faults

\* C26: single fill, single replacement -- when the monitor is given the
\* venue's listing and a tracked open order is absent from it, the tick
\* takes the fill up (an absent order is marked filled, so it is not seen
\* as a fill again); the place_limit_order the monitor issues for it is at
\* the price of the level of an entry marked filled, with the configured
\* size, and after it active_orders holds exactly one open entry at that
\* level.
C26_SingleReplacement ==
    [][/\ (Listed /\ running /\ OpenIds(active_orders) \ VenueIds # {}) =>
            \E k \in OpenIds(active_orders) \ VenueIds :
                active_orders'[k].status = "filled"
       /\ (pc_mon = "place" /\ next_id' = next_id + 1) =>
            /\ \E k \in DOMAIN active_orders :
                  /\ active_orders[k].status = "filled"
                  /\ active_orders[k].level_index = cur.level
            /\ \E o \in venue_orders' \ venue_orders :
                  /\ o.price = levels[cur.level]
                  /\ o.size = engine_config.position_size
                  /\ OpenAt(active_orders', cur.level) = {o.id}]_vars

\* A place_limit_order has failed and has left level i without an open
\* entry: the engine runs, no start is in flight, the monitor is not in the
\* middle of placing at i, and the level should hold an order.
FailedAt(i) ==
    /\ faults > 0
    /\ running /\ pc_start = "idle"
    /\ ~(pc_mon \in {"ticker", "place"} /\ cur.level = i)
    /\ i \in WantedLevels
    /\ OpenAt(active_orders, i) = {}

\* C27: transient placement failures are retried -- when the only adapter
\* failures are failures of place_limit_order, a level left without an open
\* entry by a failed placement (at start or when replacing a fill) gets an
\* open entry on a later tick (as long as the engine runs, the level still
\* should hold an order and the venue has an order id left to give).
C27_PlacementRetried ==
    \A i \in InitialLevelIdx :
        FailedAt(i) ~>
            \/ ~running \/ i \notin WantedLevels \/ next_id > MaxOrderId
            \/ OpenAt(active_orders, i) # {}

\* cancel_order has been applied to an id that the listing holds / that a
\* listing that was answered does not hold.
CancelDone == fn_call.fn = "cancel_order" /\ fn_result # NoResult
Listed22 == \E o \in fn_call.listing.orders : o.id = fn_call.order_id

\* C22: cancellation side discovery -- cancel_order cancels an order that
\* its own open-orders listing holds with the side listed there, in one
\* request; for an id absent from the listing it sends a cancel request per
\* side, no side twice, stops at the first request that succeeds and
\* returns cancelled, and raises only after both sides have been tried and
\* have failed.
C22_CancelSideDiscovery ==
    (CancelDone /\ fn_call.listing.ok) =>
        LET att == fn_result.attempts IN
        IF Listed22
        THEN /\ att = <<(CHOOSE o \in fn_call.listing.orders : o.id = fn_call.order_id).side>>
             /\ fn_result.status = "cancelled" <=> att[1] \in fn_call.accepts
        ELSE /\ Len(att) >= 1
             /\ \A i, j \in DOMAIN att :
                    att[i] \in {"buy", "sell"} /\ (att[i] = att[j] => i = j)
             /\ \A i \in 1..(Len(att) - 1) : att[i] \notin fn_call.accepts
             /\ fn_result.status = "cancelled" => att[Len(att)] \in fn_call.accepts
             /\ fn_result.status # "cancelled" =>
                    /\ fn_result.status = "raised"
                    /\ {att[i] : i \in DOMAIN att} = {"buy", "sell"}
                    /\ fn_call.accepts = {}

\* An id absent from the listing was cancelled by the second request, the
\* first side having failed.
C22_Witness ==
    /\ CancelDone /\ fn_call.listing.ok /\ ~Listed22
    /\ fn_result.status = "cancelled" /\ Len(fn_result.attempts) = 2

\* determine_side has been applied.
SideDone == fn_call.fn = "determine_side" /\ fn_result # NoResult

\* C23: determine_side returns skip exactly when |price - mid| is at most
\* the tolerance, buy when the price is below the mid by more than the
\* tolerance and sell when it is above by more than the tolerance; the
\* levels 100, 125, 150, 175, 200 with mid 150 give buy, buy, skip, sell,
\* sell.
C23_DetermineSide ==
    SideDone =>
        LET price == fn_call.price
            mid_price == fn_call.mid_price
            side == fn_result.value IN
        /\ side \in {"buy", "sell", "skip"}
        /\ side = "skip" <=> Abs(price - mid_price) <= Tolerance
        /\ side = "buy" <=> mid_price - price > Tolerance
        /\ side = "sell" <=> price - mid_price > Tolerance
        /\ LET grid == calculate_fixed_grid(100 * PriceUnit, 200 * PriceUnit, 5)
               polarity == <<"buy", "buy", "skip", "sell", "sell">> IN
           /\ \A i \in DOMAIN grid : grid[i] = (100 + 25 * i) * PriceUnit
           /\ \A i \in DOMAIN grid :
                 (price = grid[i] /\ mid_price = 150 * PriceUnit)
                     => side = polarity[i + 1]

\* A price one tolerance above the mid price is skipped.
C23_Witness ==
    /\ SideDone
    /\ fn_call.price = fn_call.mid_price + Tolerance
    /\ fn_result.value = "skip"

\* calculate_fixed_grid has been applied to arguments it accepts.
GridDone ==
    /\ fn_call.fn = "calculate_fixed_grid" /\ fn_result # NoResult
    /\ fn_call.total_levels >= 2 /\ fn_call.upper_bound > fn_call.lower_bound

\* (total_levels - 1) times the exact price lower + i * (upper - lower) /
\* (total_levels - 1) of level i.
ExactTimes(i) ==
    fn_call.lower_bound * (fn_call.total_levels - 1)
        + i * (fn_call.upper_bound - fn_call.lower_bound)

C31_ManualOrdersKept ==
    [][(pc_start = "sync" /\ pc_start' # "sync") =>
        \A k \in DOMAIN active_orders :
            "id" \in DOMAIN active_orders[k] => k \in DOMAIN active_orders']_vars

\* An order has been adopted on its own.
AdoptDone == fn_call.fn = "adopt" /\ fn_result # NoResult

\* C32: snap-to-level -- an adopted order (startup adoption or manual sync)
\* gets the index of a level whose price is nearest to the order's price
\* by absolute distance, the lowest such index when levels are equally
\* distant, and its side, price and size are those of the order.
C32_SnapToLevel ==
    AdoptDone =>
        LET o == fn_call.order
            e == fn_result.value IN
        /\ e.level_index \in LevelIdx
        /\ \A j \in LevelIdx :
              Abs(o.price - levels[e.level_index]) <= Abs(o.price - levels[j])
        /\ \A j \in LevelIdx :
              Abs(o.price - levels[j]) = Abs(o.price - levels[e.level_index])
                  => e.level_index <= j
        /\ e.side = o.side /\ e.price = o.price /\ e.size = o.size
        /\ e.status = "open"

\* An order half-way between levels 0 and 1 was adopted at level 0.
C32_Witness ==
    /\ AdoptDone
    /\ Abs(fn_call.order.price - levels[0]) = Abs(fn_call.order.price - levels[1])
    /\ fn_result.value.level_index = 0

\* The step in which the ticker fetch of the initial placement raises and
\* start(), awaited by start_bot, fails.
FailedStart ==
    /\ pc_start = "ticker" /\ pc_start' = "idle"
    /\ faults' = faults + 1
    /\ start_caller = "api"

\* C33: failed start -- when start() fails after entering STARTING because
\* the ticker fetch of the initial placement raises, start_bot returns
\* success = false with the error message, bot_state is ERROR, last_error
\* is set, the engine is not running and no monitor task exists.
C33_FailedStart ==
    [][FailedStart =>
        /\ response' = Reply("start", FALSE)
        /\ ~response'.success /\ response'.message = "error"
        /\ bot_state' = "ERROR"
        /\ last_error' = "set"
        /\ ~running'
        /\ pc_mon' = "none"]_vars

C33_Witness ==
    /\ response = Reply("start", FALSE)
    /\ bot_state = "ERROR" /\ last_error = "set"
    /\ ~running /\ pc_start = "idle" /\ pc_mon = "none"

\* cancel_order_at_level(i) meets an open entry at level i whose order the
\* venue no longer lists, and the venue's cancel raises "not found".
CancelNotFound(i) ==
    /\ CancelOrderAtLevel(i)
    /\ faults' = faults + 1
    /\ \E k \in OpenAt(active_orders, i) : k \notin {o.id : o \in venue_orders}

\* C34: cancel tolerates NotFound -- when the cancel of an open level is
\* answered "not found" by the venue, no open entry remains at that level,
\* exactly as after a successful cancel.
C34_CancelNotFound ==
    [][\A i \in InitialLevelIdx :
        CancelNotFound(i) => OpenAt(active_orders', i) = {}]_vars

\* Start and stop called one after the other, with the monitor task and
\* the venue running in between; every adapter call may fail.  A pending
\* adapter call of stop() always answers: it returns or it raises.
NextStop ==
    \/ VenueFill
    \/ Monitor
    \/ LifeCycleIdle /\ (StartBot \/ StopBot)
    \/ StartSync \/ StartTicker \/ StartPlace
    \/ CancelAllFetch("stop") \/ CancelAll("stop")

SpecStop ==
    /\ Init /\ [][NextStop]_vars
    /\ WF_vars(CancelAllFetch("stop"))
    /\ WF_vars(CancelAll("stop"))

\* C35: stop() terminates -- a stop() in progress eventually completes
\* with the monitor task ended, the engine not running and bot_state
\* STOPPED, whether or not the open-orders fetch and the cancels fail; the
\* call makes one pass over the cancels and then returns, without retrying
\* the ones that failed.
C35_StopTerminates ==
    /\ (pc_stop # "idle") ~>
          (pc_stop = "idle" /\ bot_state = "STOPPED" /\ pc_mon = "none" /\ ~running)
    /\ [][pc_stop = "cancel" =>
            pc_stop' = "cancel" \/ (pc_stop' = "idle" /\ bot_state' = "STOPPED")]_vars

\* stop() has just returned although its cancel pass was not clean: orders
\* are left on the venue.
C35_Witness ==
    /\ response = Reply("stop", TRUE)
    /\ bot_state = "STOPPED" /\ pc_mon = "none" /\ ~running
    /\ ca_streak = 1 /\ ~ca_clean
    /\ faults = MaxFaults
    /\ venue_orders # {}

PlaceDone == fn_call.fn = "place_limit_order" /\ fn_result # NoResult

\* C36: Bitkub size conversion -- for an order of `amount` base units at
\* `price`, the adapter sends amt = amount * price for a buy, amt = amount
\* for a sell, and rat = price.
C36_SizeConversion ==
    PlaceDone =>
        LET p == fn_result.value IN
        /\ p.rat = fn_call.price
        /\ fn_call.side = "buy" => p.amt_num = fn_call.amount * fn_call.price * p.amt_den
        /\ fn_call.side = "sell" => p.amt_num = fn_call.amount * p.amt_den

\* ------------------------------------------------- SimulatedExchange
MaxSeed == 3
MaxSimTicks == 3
MaxTickerCalls == 2

Runs == {1, 2}
Seeds == 0..MaxSeed

\* The module-level generator of `random`: seed() fixes its state and every
\* draw, of gauss and of uniform alike, advances it.  A full-period
\* congruential generator stands for it.
random_next(s) == (5 * s + 3) % 16

\* The price after `change = random.gauss(0, volatility)` (lines 35-37), the
\* draw read off the generator's state: one unit down, unchanged or one
\* unit up, never below 1.
price_after(price, s) ==
    LET moved == price + (s % 3) - 1 IN IF moved < 1 THEN 1 ELSE moved

\* SimulatedExchange(initial_price, seed=seed) (lines 12-28), with one buy
\* order placed one unit below the initial price before the first update.
NewSim(initial_price, seed) ==
    [seed |-> seed, rng |-> seed,
     current_price |-> initial_price,
     price_history |-> <<initial_price>>,
     usdt |-> 10000,
     order |-> [side |-> "buy", price |-> initial_price - 1, amount |-> 1,
                status |-> "open"],
     filled_at |-> 0,
     tickers |-> 0]

InitSim ==
    /\ EngineInit /\ mode = "sim"
    /\ fn_call = NoCall /\ fn_result = NoResult
    /\ \E seed \in Seeds : sim = [r \in Runs |-> NewSim(mid, seed)]

\* One iteration of _price_updater in run r (lines 32-41): the price moves
\* by the next gauss draw, is appended to the history, and _match_orders
\* fills the open buy order if the price is at or below its limit and the
\* quote balance covers it (lines 43-73).
SimPriceUpdate(r) ==
    LET s == sim[r]
        rng == random_next(s.rng)
        price == price_after(s.current_price, rng)
        cost == s.order.amount * s.order.price
        matched == s.order.status = "open" /\ price <= s.order.price /\ s.usdt >= cost
    IN
    /\ sim # NoSim
    /\ Len(s.price_history) <= MaxSimTicks
    /\ sim' = [sim EXCEPT ![r] =
                  [s EXCEPT !.rng = rng,
                            !.current_price = price,
                            !.price_history = Append(s.price_history, price),
                            !.usdt = IF matched THEN s.usdt - cost ELSE s.usdt,
                            !.order.status = IF matched THEN "filled" ELSE s.order.status,
                            !.filled_at = IF matched THEN Len(s.price_history) + 1
                                          ELSE s.filled_at]]
    /\ UNCHANGED <<prog_vars, fn_call, fn_result>>

\* fetch_ticker in run r (lines 113-123): the price is reported as it is,
\* and the volume of the answer is drawn with random.uniform.
SimFetchTicker(r) ==
    /\ sim # NoSim
    /\ sim[r].tickers < MaxTickerCalls
    /\ sim' = [sim EXCEPT ![r].rng = random_next(sim[r].rng),
                          ![r].tickers = sim[r].tickers + 1]
    /\ UNCHANGED <<prog_vars, fn_call, fn_result>>

NextSim == \E r \in Runs : SimPriceUpdate(r) \/ SimFetchTicker(r)

SpecSim == InitSim /\ [][NextSim]_vars

\* C37: simulator determinism -- two runs with the same seed and the same
\* initial price show the same simulated prices, tick for tick, and fill
\* the same order at the same tick, however many fetch_ticker calls each
\* run has served and whenever it served them.
C37_SameSeedSamePrices ==
    (sim # NoSim /\ sim[1].seed = sim[2].seed) =>
        /\ \A k \in 1..(MaxSimTicks + 1) :
              (k <= Len(sim[1].price_history) /\ k <= Len(sim[2].price_history)) =>
                  sim[1].price_history[k] = sim[2].price_history[k]
        /\ \A a \in Runs, b \in Runs :
              (sim[a].filled_at # 0 /\ Len(sim[b].price_history) >= sim[a].filled_at) =>
                  sim[b].filled_at = sim[a].filled_at

\* A start, the monitor task and the venue, with the operator toggling
\* zones and enabling levels at any moment.
NextZone ==
    \/ Venue \/ Monitor
    \/ StartBot \/ StartSync \/ StartTicker \/ StartPlace
    \/ \E z \in ZoneIds, enabled \in BOOLEAN : ToggleZone(z, enabled)
    \/ \E i \in LevelIdx : EnableOrderAtLevel(i)

SpecZone == Init /\ [][NextZone]_vars

\* C38: no order in a disabled zone -- the engine never holds an open entry
\* at a level whose zone is disabled at that moment, whatever the
\* interleaving of toggle_zone with a start, a replacement or an enable in
\* flight and also after the startup adoption of venue orders.  Stated for
\* the behaviours in which no adapter call has failed.
C38_NoOrderInDisabledZone ==
    faults = 0 =>
        \A k \in OpenIds(active_orders) :
            active_orders[k].level_index \in LevelIdx =>
                ZoneEnabled(active_orders[k].level_index)

\* C39: no placement while stopped -- while the engine is not running and
\* bot_state is STOPPED or ERROR, no step places an order on the venue or
\* records one: neither enable_order_at_level nor a late replacement.
C39_NoPlacementWhileStopped ==
    [][(~running /\ bot_state \in {"STOPPED", "ERROR"}) =>
          /\ next_id' <= next_id
          /\ OpenIds(active_orders') \subseteq OpenIds(active_orders)]_vars

\* Level i is disabled in the engine's zone map.
DisabledLevel(zm, i) == i \in DOMAIN zm /\ ~zm[i].enabled

\* C40: zone intent survives a restart -- a level disabled through
\* toggle_zone stays disabled through every step that is not a
\* toggle_zone(z, true) and leaves the configuration as it is, in
\* particular through reset(cancel_only=false) and through a stop followed
\* by initialize and start with the same configuration.
C40_ZoneIntentSurvives ==
    [][(/\ engine_config' = engine_config /\ config' = config
        /\ ~(\E z \in ZoneIds : ToggleZone(z, TRUE))) =>
          \A i \in InitialLevelIdx :
              DisabledLevel(zone_map, i) => DisabledLevel(zone_map', i)]_vars

====
